---- MODULE Spec2Model ----
(***************************************************************************)
(* State-machine model of the iTowns View (Core/View): the layer           *)
(* collection, the frame-requester registry, the readiness events and the  *)
(* cross-view source cache accounting, with the MainLoop cycle and the     *)
(* Layer attach/detach/readiness protocol it relies on.                    *)
(*                                                                         *)
(* The program state is threaded through the operators as one record `w`   *)
(* (the "world"): every operator that models a method takes the world and  *)
(* returns the world after the call, so that a method calling another      *)
(* method is an operator applying another operator.  A field `threw` marks *)
(* an exception in flight; `out` records what the running operation did    *)
(* that is observable from outside (events, source notifications, result). *)
(***************************************************************************)
EXTENDS Integers, Sequences, FiniteSets, TLC

(***************************************************************************)
(* Bounds of the model.                                                    *)
(***************************************************************************)
\* addLayer calls whose startup promises are still pending
MaxPending == 3
\* Layers attached to one Layer
MaxAttached == 2
\* frame requesters registered at one attach point, and queued removals
MaxListLen == 2
\* commands waiting in the Scheduler
MaxCommands == 1
\* startup promises of a Layer (layer._promises)
MaxPromises == 2
\* value of the counter from which no further View is constructed
MaxViews == 4
\* commands submitted to the Scheduler
MaxSubmitted == 2
\* addLayer calls accepted for a Layer with label support
MaxLabelled == 2

(***************************************************************************)
(* The Views and the Layer objects of the scenario.  0 stands for          *)
(* undefined.  View 1 is given a tiled geometry Layer P and two color      *)
(* Layers X and Y that have the same id; View 2 is given a geometry Layer  *)
(* Q over the same Source as P.  The attributes below are what the         *)
(* Layers are constructed with.                                            *)
(***************************************************************************)
Views == {1, 2}
P == 1
X == 2
Y == 3
Q == 4
LayerObjs == {P, X, Y, Q}
\* Arguments of addLayer with a configuration error: N is not a Layer
\* (no isLayer), Z is a Layer without an update function, W a Layer
\* without a preUpdate function.
N == 5
Z == 6
W == 7
\* K is a third color Layer of View 1, with an id of its own
K == 8
\* L is a color Layer of View 1 with label support (addLabelLayer), LL the
\* LabelLayer '<id>-label' that _preprocessLayer derives from it
L == 9
LL == 10
Objs == LayerObjs \cup {N, Z, W, K, L, LL}
IsLayer(o) == o # N
ViewOf(o) == IF o = Q THEN 2 ELSE 1
LayersOfView(v) == {o \in LayerObjs : ViewOf(o) = v}

\* layer.id
IdOf(o) == IF o \in {P, Q} THEN 1 ELSE IF o \in {X, Y} THEN 2 ELSE IF o = K THEN 4
           ELSE IF o = L THEN 5 ELSE IF o = LL THEN 6 ELSE 3

IsGeometryLayer(o) == o \in {P, Q}
IsColorLayer(o) == o \in {X, Y, K, L}
IsLabelLayer(o) == o = LL
\* layer.labelEnabled || layer.addLabelLayer
AddLabelLayer(o) == o = L
LabelOf(o) == LL
IsTiledGeometryLayer(o) == IsGeometryLayer(o)
IsAtmosphere(o) == FALSE
HasUpdate(o) == o # Z
HasPreUpdate(o) == o # W
\* layer.object3d
HasObject3d(o) == IsGeometryLayer(o) \/ IsLabelLayer(o)
\* the Layers that are given as parentLayer
ParentsOfView(v) == {o \in LayersOfView(v) : IsGeometryLayer(o)}

\* Coordinate reference systems; 0 is undefined.  An extent is identified
\* by its crs.
RefCrs(v) == 1
SourceOf(o) == IF IsGeometryLayer(o) THEN 1 ELSE 2
Sources == {SourceOf(o) : o \in LayerObjs}
SourceCrs(s) == 2
\* the LabelLayer is built with crs: source.crs
InitCrs(o) == IF o = Y THEN 1 ELSE IF o = LL THEN SourceCrs(SourceOf(o)) ELSE 0
InitExtent(o) == IF IsGeometryLayer(o) THEN 1 ELSE 0
TileMatrixSets(o) == IF IsGeometryLayer(o) THEN {2} ELSE {}

\* Change sources that are not Layers.
Camera == 0 - 1
Camera3D == 0 - 2
TileMesh == 0 - 3
IsCamera(c) == c \in {Camera, Camera3D}
IsTileMesh(c) == c = TileMesh

\* Frame requesters: 0 is the View's _allLayersAreReadyCallback, the others
\* are registered by the application.  Attach points are numbered in the
\* order the MainLoop runs them; the last one is UPDATE_END.
AllLayersAreReadyCallback == 0
UserRequesters == {1}
BEFORE_LAYER_UPDATE == 1
UPDATE_END == 2
Points == {BEFORE_LAYER_UPDATE, UPDATE_END}

\* Sizes in pixels.  NoArg stands for an argument that is not given
\* (undefined); the size of the DOM element is domElement.clientWidth x
\* domElement.clientHeight.
NoArg == 0 - 1000
ClientWidth == 2
ClientHeight == 1

RENDERING_PAUSED == "paused"
RENDERING_SCHEDULED == "scheduled"

VARIABLES viewers, id, view, layer, source, reactions, sched, out, hist
vars == <<viewers, id, view, layer, source, reactions, sched, out, hist>>

(***************************************************************************)
(* The world record and the observation record.                            *)
(***************************************************************************)
NoOut == [op |-> "none", v |-> 0, l |-> 0, p |-> 0, id |-> 0, ret |-> "none",
          events |-> <<>>, notified |-> <<>>, deleted |-> <<>>,
          invoked |-> <<>>, beh |-> "none", errors |-> 0,
          changes |-> <<>>, scheduled |-> <<>>, calls |-> <<>>, flags |-> <<>>,
          seen |-> <<>>]

World == [viewers |-> viewers, id |-> id, view |-> view, layer |-> layer,
          source |-> source, reactions |-> reactions, sched |-> sched,
          threw |-> FALSE, out |-> NoOut]

Begin(op, v, l, p, layerId) ==
    [World EXCEPT !.out = [NoOut EXCEPT !.op = op, !.v = v, !.l = l, !.p = p, !.id = layerId]]

Throw(w) == [w EXCEPT !.threw = TRUE, !.out.ret = "threw"]
Return(w, r) == IF w.threw THEN w ELSE [w EXCEPT !.out.ret = r]

\* Sequencing: the call F is skipped when an exception is in flight.
AndThen(w, F(_)) == IF w.threw THEN w ELSE F(w)

Includes(s, x) == \E i \in 1..Len(s) : s[i] = x
\* Array.prototype.indexOf / findIndex, 0 when absent
IndexOf(s, x) == IF Includes(s, x) THEN CHOOSE i \in 1..Len(s) : s[i] = x /\ \A j \in 1..(i-1) : s[j] # x ELSE 0
RemoveAt(s, i) == SubSeq(s, 1, i - 1) \o SubSeq(s, i + 1, Len(s))

(***************************************************************************)
(* MainLoop.scheduleViewUpdate and View.notifyChange                       *)
(***************************************************************************)
ScheduleViewUpdate(w, v, forceRedraw) ==
    LET m == w.view[v] IN
    [w EXCEPT !.out.scheduled = Append(@, <<v, forceRedraw>>),
              !.view[v].needsRedraw = m.needsRedraw \/ forceRedraw,
              !.view[v].renderingState = RENDERING_SCHEDULED,
              !.view[v].rafPending = m.rafPending \/ m.renderingState # RENDERING_SCHEDULED]

\* this.mainLoop.gfxEngine.renderer.xr.isPresenting
XrIsPresenting(w, v) == w.view[v].xrPresenting

\* mutant: the XR session is not looked at
DepthCacheStaleAfter_IgnoresXr(w, v, changeSource) ==
    IF IsTileMesh(changeSource) \/ IsCamera(changeSource)
    THEN TRUE ELSE w.view[v].depthStale

DepthCacheStaleAfter(w, v, changeSource) ==
    IF ~XrIsPresenting(w, v) /\ (IsTileMesh(changeSource) \/ IsCamera(changeSource))
    THEN TRUE ELSE w.view[v].depthStale

\* changeSource 0 is undefined
NotifyChange(w, v, changeSource, needsRedraw) ==
    LET w0 == [w EXCEPT !.out.changes = Append(@, <<v, changeSource, needsRedraw>>)]
        w1 == IF changeSource # 0
              THEN [w0 EXCEPT !.view[v].changeSources = @ \cup {changeSource},
                              !.view[v].depthStale = DepthCacheStaleAfter(w0, v, changeSource)]
              ELSE w0
    IN ScheduleViewUpdate(w1, v, needsRedraw)

\* notifyChange(changeSource): needsRedraw takes its default value
NotifyChangeDefault(w, v, changeSource) == NotifyChange(w, v, changeSource, TRUE)

(***************************************************************************)
(* View.getLayers / View.getLayerById                                      *)
(***************************************************************************)
RECURSIVE GetLayersFrom(_, _)
GetLayersFrom(w, roots) ==
    IF roots = <<>> THEN <<>>
    ELSE <<Head(roots)>> \o w.layer[Head(roots)].attachedLayers \o GetLayersFrom(w, Tail(roots))

GetLayers(w, v) == GetLayersFrom(w, w.view[v].layers)

GetLayerById(w, v, layerId) ==
    LET found == SelectSeq(GetLayers(w, v), LAMBDA l : IdOf(l) = layerId)
    IN IF found = <<>> THEN 0 ELSE found[1]

ColorLayers(w, v) == SelectSeq(GetLayers(w, v), IsColorLayer)

(***************************************************************************)
(* THREE.EventDispatcher.dispatchEvent on a View, with the listener the    *)
(* constructor registers for layers-initialized (fn).                      *)
(***************************************************************************)
\* out.seen keeps what a listener of the event finds when it is called: the
\* Layers of getLayers(), and how many Source notifications and change
\* notifications the running call has issued so far
LogEvent(w, v, type, arg) ==
    [w EXCEPT !.out.events = Append(@, <<v, type, arg>>),
              !.out.seen = Append(@, [layers |-> {GetLayers(w, v)[i] : i \in 1..Len(GetLayers(w, v))},
                                      notified |-> Len(w.out.notified),
                                      changes |-> Len(w.out.changes)])]

\* mutant: fn stays registered
DispatchEvent_KeepsListener(w, v, type, arg) ==
    LET w1 == LogEvent(w, v, type, arg) IN
    IF type = "layers-initialized" /\ w1.view[v].fnRegistered
    THEN LogEvent(w1, v, "initialized", 0)
    ELSE w1

DispatchEvent(w, v, type, arg) ==
    LET w1 == LogEvent(w, v, type, arg) IN
    IF type = "layers-initialized" /\ w1.view[v].fnRegistered
    THEN LogEvent([w1 EXCEPT !.view[v].fnRegistered = FALSE], v, "initialized", 0)
    ELSE w1

(***************************************************************************)
(* Layer: the readiness promise and attach / detach / delete.              *)
(***************************************************************************)
\* layer._resolve(): settles whenReady; its continuation sets layer.ready
LayerResolve(w, l) ==
    IF w.layer[l].whenReady = "pending"
    THEN [w EXCEPT !.layer[l].whenReady = "resolved", !.layer[l].ready = TRUE]
    ELSE w

\* layer._reject(error)
LayerReject(w, l) ==
    IF w.layer[l].whenReady = "pending"
    THEN [w EXCEPT !.layer[l].whenReady = "rejected"]
    ELSE w

\* parentLayer.attach(layer)
Attach(w, p, l) ==
    [w EXCEPT !.layer[p].attachedLayers = Append(@, l), !.layer[l].parent = p]

\* parentLayer.detach(layer): the attached layers with the id of `layer` are
\* filtered out; DetachOk is the value it returns.
DetachOk(w, p, l) ==
    \E i \in 1..Len(w.layer[p].attachedLayers) : IdOf(w.layer[p].attachedLayers[i]) = IdOf(l)

Detach(w, p, l) ==
    LET rest == SelectSeq(w.layer[p].attachedLayers, LAMBDA a : IdOf(a) # IdOf(l))
        w1 == [w EXCEPT !.layer[p].attachedLayers = rest]
    IN [w1 EXCEPT !.layer[l].parent = 0]

\* layer.delete(clearCache)
LayerDelete(w, l) == [w EXCEPT !.out.deleted = Append(@, l)]

\* source.onLayerRemoved({ unusedCrs })
OnLayerRemoved(w, s, unusedCrs) == [w EXCEPT !.out.notified = Append(@, <<s, unusedCrs>>)]

(***************************************************************************)
(* Frame requesters                                                        *)
(***************************************************************************)
AddFrameRequester(w, v, when, frameRequester) ==
    IF when \notin w.view[v].frHas
    THEN [w EXCEPT !.view[v].frHas = @ \cup {when}, !.view[v].fr[when] = <<frameRequester>>]
    ELSE [w EXCEPT !.view[v].fr[when] = Append(@, frameRequester)]

\* this._frameRequesters[when] is undefined when nothing was ever registered
\* at `when`: reading .includes of it throws a TypeError.
\* mutant: the requester is unlinked at once
RemoveFrameRequester_Immediate(w, v, when, frameRequester) ==
    IF when \notin w.view[v].frHas THEN Throw(w)
    ELSE IF Includes(w.view[v].fr[when], frameRequester)
    THEN [w EXCEPT !.view[v].fr[when] = RemoveAt(@, IndexOf(@, frameRequester))]
    ELSE [w EXCEPT !.out.errors = @ + 1]

RemoveFrameRequester(w, v, when, frameRequester) ==
    IF when \notin w.view[v].frHas THEN Throw(w)
    ELSE IF Includes(w.view[v].fr[when], frameRequester)
    THEN [w EXCEPT !.view[v].delayed = Append(@, <<when, frameRequester>>)]
    ELSE [w EXCEPT !.out.errors = @ + 1]

RECURSIVE ApplyRemovals(_, _)
ApplyRemovals(fr, toDelete) ==
    IF toDelete = <<>> THEN fr
    ELSE LET when == Head(toDelete)[1]
             index == IndexOf(fr[when], Head(toDelete)[2])
         IN ApplyRemovals(IF index > 0 THEN [fr EXCEPT ![when] = RemoveAt(@, index)] ELSE fr,
                          Tail(toDelete))

\* mutant: the queue is emptied without unlinking
ExecuteFrameRequestersRemovals_ClearsOnly(w, v) ==
    [w EXCEPT !.view[v].delayed = <<>>]

ExecuteFrameRequestersRemovals(w, v) ==
    [w EXCEPT !.view[v].fr = ApplyRemovals(@, w.view[v].delayed),
              !.view[v].delayed = <<>>]

\* The requests of removeAllFrameRequesters, attach point by attach point
RECURSIVE QueueAll(_, _, _)
QueueAll(w, v, items) ==
    IF items = <<>> \/ w.threw THEN w
    ELSE QueueAll(RemoveFrameRequester(w, v, Head(items)[1], Head(items)[2]), v, Tail(items))

RECURSIVE Registrations(_, _, _)
Registrations(w, v, when) ==
    IF when > UPDATE_END THEN <<>>
    ELSE (IF when \in w.view[v].frHas
          THEN [i \in 1..Len(w.view[v].fr[when]) |-> <<when, w.view[v].fr[when][i]>>]
          ELSE <<>>) \o Registrations(w, v, when + 1)

RemoveAllFrameRequesters(w, v) ==
    LET w1 == QueueAll(w, v, Registrations(w, v, 1))
    IN AndThen(w1, LAMBDA x : ExecuteFrameRequestersRemovals(x, v))

(***************************************************************************)
(* _preprocessLayer (extent and crs inheritance)                           *)
(***************************************************************************)
\* mutant: the extent of the parent replaces the one the Layer has
PreprocessExtent_Overwrites(w, l, p) ==
    IF p # 0
    THEN LET w1 == [w EXCEPT !.layer[l].extent = w.layer[p].extent]
         IN IF w.source[SourceOf(l)].extent = 0
            THEN [w1 EXCEPT !.source[SourceOf(l)].extent = w.layer[p].extent]
            ELSE w1
    ELSE w

PreprocessExtent(w, l, p) ==
    IF p # 0 /\ w.layer[l].extent = 0
    THEN LET w1 == [w EXCEPT !.layer[l].extent = w.layer[p].extent]
         IN IF w.source[SourceOf(l)].extent = 0
            THEN [w1 EXCEPT !.source[SourceOf(l)].extent = w.layer[p].extent]
            ELSE w1
    ELSE w

\* parentLayer.extent.crs: a TypeError when the parent has no extent
PreprocessCrs(w, v, l, p) ==
    IF IsGeometryLayer(l) /\ ~IsLabelLayer(l)
    THEN [w EXCEPT !.layer[l].crs = RefCrs(v)]
    ELSE IF w.layer[l].crs = 0
    THEN IF p # 0 /\ SourceCrs(SourceOf(l)) \in TileMatrixSets(p)
         THEN [w EXCEPT !.layer[l].crs = SourceCrs(SourceOf(l))]
         ELSE IF p = 0 THEN w
         ELSE IF w.layer[p].extent = 0 THEN Throw(w)
         ELSE [w EXCEPT !.layer[l].crs = w.layer[p].extent]
    ELSE w

\* A Layer with label support: removeLabelLayer is registered as a listener
\* of layer-removed on the View and the addition of the LabelLayer is chained
\* on layer.whenReady.  labelListeners counts the registered listeners,
\* labelChain the callbacks waiting for whenReady.
PreprocessLabel(w, v, l) ==
    IF ~IsLabelLayer(l) /\ AddLabelLayer(l)
    THEN [w EXCEPT !.view[v].labelListeners = @ + 1, !.layer[l].labelChain = @ + 1]
    ELSE w

PreprocessLayer(w, v, l, p) ==
    AndThen(PreprocessCrs(PreprocessExtent(w, l, p), v, l, p), LAMBDA x : PreprocessLabel(x, v, l))

(***************************************************************************)
(* View.addLayer                                                           *)
(***************************************************************************)
\* Promise.all(layer._promises).then(onFulfilled, layer._reject)
RegisterReaction(w, v, l, p) == [w EXCEPT !.reactions = Append(@, <<v, l, p>>)]

AddToParent(w, v, l, p) ==
    LET w1 == IF IsColorLayer(l)
              THEN [w EXCEPT !.layer[l].sequence = Len(ColorLayers(w, v))]
              ELSE w
    IN Attach(w1, p, l)

AddToRoots(w, v, l) == [w EXCEPT !.view[v].layers = Append(@, l)]

\* this.scene.add(layer.object3d), when the object has no parent yet
AddToScene(w, v, l) ==
    IF HasObject3d(l) /\ ~w.layer[l].inScene
    THEN [w EXCEPT !.layer[l].inScene = TRUE,
                   !.out.calls = Append(@, <<"scene.add", v, l>>)]
    ELSE w

\* mutant: the update functions are tested after the Layer is made a root
AddLayerChecked_ChecksLate(w, v, l, p) ==
    LET w1 == PreprocessLayer(w, v, l, p) IN
    IF w1.threw THEN w1
    ELSE IF p # 0
    THEN Return(RegisterReaction(AddToScene(AddToParent(w1, v, l, p), v, l), v, l, p), "whenReady")
    ELSE IF ~HasUpdate(l) \/ ~HasPreUpdate(l)
    THEN Return(LayerReject(AddToRoots(w1, v, l), l), "rejected")
    ELSE Return(RegisterReaction(AddToScene(AddToRoots(w1, v, l), v, l), v, l, p), "whenReady")

AddLayerChecked(w, v, l, p) ==
    LET w1 == PreprocessLayer(w, v, l, p) IN
    IF w1.threw THEN w1
    ELSE IF p # 0
    THEN Return(RegisterReaction(AddToScene(AddToParent(w1, v, l, p), v, l), v, l, p), "whenReady")
    ELSE IF ~HasUpdate(l) \/ ~HasPreUpdate(l)
    THEN Return(LayerReject(w1, l), "rejected")
    ELSE Return(RegisterReaction(AddToScene(AddToRoots(w1, v, l), v, l), v, l, p), "whenReady")

DuplicateOf(w, v, l) == GetLayerById(w, v, IdOf(l))

\* mutant: the Layer already in the View is the one rejected
AddLayer_RejectsFirst(w, v, l, p) ==
    IF l = 0 \/ ~IsLayer(l) THEN Return(w, "rejected")
    ELSE IF DuplicateOf(w, v, l) # 0
    THEN Return(LayerReject(w, DuplicateOf(w, v, l)), "rejected")
    ELSE AddLayerChecked(w, v, l, p)

\* a non-Layer argument gets Promise.reject(new Error(...))
AddLayer(w, v, l, p) ==
    IF l = 0 \/ ~IsLayer(l) THEN Return(w, "rejected")
    ELSE IF DuplicateOf(w, v, l) # 0
    THEN Return(LayerReject(w, l), "rejected")
    ELSE AddLayerChecked(w, v, l, p)

\* layer.whenReady.then(() => view.addLayer(labelLayer)): the callbacks run
\* once whenReady is resolved, each with a LabelLayer of the same id, so
\* that all but the first are rejected as duplicates; nothing runs when
\* whenReady is rejected.
RunLabelChain(w, v, l) ==
    IF w.layer[l].labelChain = 0 \/ w.layer[l].whenReady = "pending" THEN w
    ELSE LET w1 == [w EXCEPT !.layer[l].labelChain = 0] IN
         IF w.layer[l].whenReady = "rejected" \/ DuplicateOf(w1, v, LabelOf(l)) # 0
         THEN w1
         ELSE [AddLayer(w1, v, LabelOf(l), 0) EXCEPT !.out.ret = w.out.ret]

\* The continuation of Promise.all(layer._promises) registered by addLayer
OnStartupFulfilled(w, v, l, p) ==
    LET w1 == LayerResolve(w, l)
        w2 == NotifyChange(w1, v, IF p # 0 THEN p ELSE l, FALSE)
        w3 == IF UPDATE_END \notin w2.view[v].frHas
                 \/ ~Includes(w2.view[v].fr[UPDATE_END], AllLayersAreReadyCallback)
              THEN AddFrameRequester(w2, v, UPDATE_END, AllLayersAreReadyCallback)
              ELSE w2
    IN RunLabelChain(DispatchEvent(w3, v, "layer-added", IdOf(l)), v, l)

RunReaction(w, r) ==
    IF w.layer[r[2]].startup = "resolved"
    THEN OnStartupFulfilled(w, r[1], r[2], r[3])
    ELSE LayerReject(w, r[2])

(***************************************************************************)
(* View.removeLayer                                                        *)
(***************************************************************************)
\* this.#layers.splice(this.#layers.findIndex(l => l.id == layerId), 1):
\* findIndex gives -1 when no root has the id and splice(-1, 1) then removes
\* the last root.
SpliceRoot(w, v, layerId) ==
    LET roots == w.view[v].layers
        found == {i \in 1..Len(roots) : IdOf(roots[i]) = layerId}
        index == IF found = {} THEN Len(roots)
                 ELSE CHOOSE i \in found : \A j \in found : i <= j
    IN [w EXCEPT !.view[v].layers = RemoveAt(roots, index)]

RECURSIVE DecrementSequences(_, _, _)
DecrementSequences(w, colors, seq) ==
    IF colors = <<>> THEN w
    ELSE DecrementSequences(
            IF w.layer[Head(colors)].sequence > seq
            THEN [w EXCEPT !.layer[Head(colors)].sequence = @ - 1] ELSE w,
            Tail(colors), seq)

UpdateSequences(w, v, l) ==
    IF IsColorLayer(l) THEN DecrementSequences(w, ColorLayers(w, v), w.layer[l].sequence) ELSE w

RECURSIVE CountIn(_, _, _)
CountIn(w, vs, l) ==
    IF vs = <<>> THEN 0
    ELSE Len(SelectSeq(GetLayers(w, Head(vs)),
                       LAMBDA x : SourceOf(x) = SourceOf(l) /\ w.layer[x].crs = w.layer[l].crs))
         + CountIn(w, Tail(vs), l)

\* mutant: only the View of the removed Layer is counted
SharedSourceCount_OwnViewOnly(w, l) == CountIn(w, <<ViewOf(l)>>, l)

SharedSourceCount(w, l) == CountIn(w, w.viewers, l)

NotifySource(w, l) ==
    OnLayerRemoved(w, SourceOf(l), IF SharedSourceCount(w, l) = 0 THEN w.layer[l].crs ELSE 0)

\* removeLayer of a Layer that was found, up to the listeners of
\* layer-removed that _preprocessLayer registers
RemoveUpToEvent(w, v, l, layerId) ==
    LET parentLayer == w.layer[l].parent
        w1 == LayerDelete(w, l)
        w2 == IF parentLayer # 0
              THEN IF DetachOk(w1, parentLayer, l) THEN Detach(w1, parentLayer, l)
                   ELSE Throw(Detach(w1, parentLayer, l))
              ELSE SpliceRoot(w1, v, layerId)
        w3 == AndThen(w2, LAMBDA x : UpdateSequences(x, v, l))
        w4 == AndThen(w3, LAMBDA x : NotifySource(x, l))
        w5 == AndThen(w4, LAMBDA x : NotifyChange(x, v, Camera, TRUE))
    IN AndThen(w5, LAMBDA x : DispatchEvent(x, v, "layer-removed", layerId))

\* view.removeLayer(labelLayer.id), called by removeLabelLayer: the
\* layer-removed event of the LabelLayer is given to every registered
\* removeLabelLayer, which finds another id than the one of its Layer and
\* unregisters itself
RemoveLabelLayer(w, v, labelId) ==
    LET l == GetLayerById(w, v, labelId) IN
    IF l # 0
    THEN AndThen(RemoveUpToEvent(w, v, l, labelId),
                 LAMBDA x : [x EXCEPT !.view[v].labelListeners = 0])
    ELSE Throw(w)

\* removeLabelLayer(e): the LabelLayer is removed when e.layerId is the id of
\* the Layer; the listener unregisters itself whatever the id
RemoveLabelListener(w, v, layerId) ==
    LET w1 == IF layerId = IdOf(L) THEN RemoveLabelLayer(w, v, IdOf(LabelOf(L))) ELSE w
    IN AndThen(w1, LAMBDA x : [x EXCEPT !.view[v].labelListeners = IF @ > 0 THEN @ - 1 ELSE 0])

\* dispatchEvent calls the n listeners that were registered when it started
RECURSIVE RunLabelListeners(_, _, _, _)
RunLabelListeners(w, v, layerId, n) ==
    IF n = 0 \/ w.threw THEN w
    ELSE RunLabelListeners(RemoveLabelListener(w, v, layerId), v, layerId, n - 1)

RemoveFound(w, v, l, layerId) ==
    LET w6 == RemoveUpToEvent(w, v, l, layerId)
    IN Return(AndThen(w6, LAMBDA x : RunLabelListeners(x, v, layerId, w6.view[v].labelListeners)),
              "true")

\* mutant: the change of the camera is notified before the error is thrown
RemoveLayer_NotifiesFirst(w, v, layerId) ==
    LET l == GetLayerById(w, v, layerId) IN
    IF l # 0 THEN RemoveFound(w, v, l, layerId) ELSE Throw(NotifyChange(w, v, Camera, TRUE))

RemoveLayer(w, v, layerId) ==
    LET l == GetLayerById(w, v, layerId) IN
    IF l # 0 THEN RemoveFound(w, v, l, layerId) ELSE Throw(w)

(***************************************************************************)
(* View.dispose                                                            *)
(***************************************************************************)
RECURSIVE RemoveEach(_, _, _)
RemoveEach(w, v, ls) ==
    IF ls = <<>> \/ w.threw THEN w
    ELSE RemoveEach(RemoveLayer(w, v, IdOf(Head(ls))), v, Tail(ls))

RemoveAllEvents(w, v) ==
    [w EXCEPT !.view[v].fnRegistered = FALSE, !.view[v].labelListeners = 0]

Unregister(w, v) == [w EXCEPT !.viewers = RemoveAt(@, IndexOf(w.viewers, v))]

\* mutant: the registry is not looked at
Dispose_NoRegistryCheck(w, v) ==
    LET w1 == RemoveAllFrameRequesters(w, v)
        w2 == AndThen(w1, LAMBDA x : RemoveEach(x, v, GetLayers(x, v)))
        w5 == AndThen(w2, LAMBDA x : Unregister(x, v))
        w6 == AndThen(w5, LAMBDA x : DispatchEvent(x, v, "disposed", 0))
    IN Return(AndThen(w6, LAMBDA x : RemoveAllEvents(x, v)), "undefined")

Dispose(w, v) ==
    IF ~Includes(w.viewers, v) THEN Return([w EXCEPT !.out.errors = @ + 1], "undefined")
    ELSE
    LET w1 == RemoveAllFrameRequesters(w, v)
        w2 == AndThen(w1, LAMBDA x : RemoveEach(x, v,
                 SelectSeq(GetLayers(x, v), LAMBDA l : ~IsTiledGeometryLayer(l) /\ ~IsAtmosphere(l))))
        w3 == AndThen(w2, LAMBDA x : RemoveEach(x, v, SelectSeq(GetLayers(x, v), IsAtmosphere)))
        w4 == AndThen(w3, LAMBDA x : RemoveEach(x, v, SelectSeq(GetLayers(x, v), IsTiledGeometryLayer)))
        w5 == AndThen(w4, LAMBDA x : Unregister(x, v))
        w6 == AndThen(w5, LAMBDA x : DispatchEvent(x, v, "disposed", 0))
    IN Return(AndThen(w6, LAMBDA x : RemoveAllEvents(x, v)), "undefined")

(***************************************************************************)
(* View.resize                                                             *)
(***************************************************************************)
\* gfxEngine.onWindowResize(width, height)
OnWindowResize(w, v, width, height) ==
    [w EXCEPT !.view[v].rendererSize = <<width, height>>,
              !.out.calls = Append(@, <<"onWindowResize", width, height>>)]

\* camera.resize(width, height)
CameraResize(w, v, width, height) ==
    [w EXCEPT !.view[v].cameraSize = <<width, height>>,
              !.out.calls = Append(@, <<"camera.resize", width, height>>)]

\* this.#fullSizeDepthBuffer = new Uint8Array(4 * width * height): the new
\* array has no needsUpdate property
NewFullSizeDepthBuffer(w, v, width, height) ==
    [w EXCEPT !.view[v].bufferSize = 4 * width * height,
              !.view[v].depthStale = FALSE,
              !.view[v].fullSizeDepth = 0,
              !.out.calls = Append(@, <<"newBuffer", width, height>>)]

\* mutant: only the width is tested
ResizeRejected_WidthOnly(width, height) == width # NoArg /\ width < 0

\* width < 0 || height < 0 (false for undefined)
ResizeRejected(width, height) ==
    (width # NoArg /\ width < 0) \/ (height # NoArg /\ height < 0)

ResizeWidth(width) == IF width = NoArg THEN ClientWidth ELSE width
ResizeHeight(height) == IF height = NoArg THEN ClientHeight ELSE height

ResizeTo(w, v, width, height) ==
    LET w1 == NewFullSizeDepthBuffer(w, v, width, height)
        w2 == OnWindowResize(w1, v, width, height)
        w3 == IF width # 0 /\ height # 0
              THEN NotifyChangeDefault(CameraResize(w2, v, width, height), v, Camera3D)
              ELSE w2
    IN Return(w3, "resized")

\* mutant: nothing is done when the size is the current one
Resize_SkipsSameSize(w, v, width, height) ==
    IF ResizeRejected(width, height)
    THEN Return([w EXCEPT !.out.errors = @ + 1], "skipped")
    ELSE IF <<ResizeWidth(width), ResizeHeight(height)>> = w.view[v].rendererSize
    THEN Return(w, "resized")
    ELSE ResizeTo(w, v, ResizeWidth(width), ResizeHeight(height))

Resize(w, v, width, height) ==
    IF ResizeRejected(width, height)
    THEN Return([w EXCEPT !.out.errors = @ + 1], "skipped")
    ELSE ResizeTo(w, v, ResizeWidth(width), ResizeHeight(height))

(***************************************************************************)
(* The View's _allLayersAreReadyCallback                                   *)
(***************************************************************************)
CommandsWaitingExecutionCount(w, v) == w.view[v].cmds

\* mutant: the Scheduler is not consulted
AllLayersAreReady_IgnoresCommands(w, v) ==
    /\ \A i \in 1..Len(GetLayers(w, v)) : w.layer[GetLayers(w, v)[i]].ready
    /\ w.view[v].renderingState = RENDERING_PAUSED

AllLayersAreReady(w, v) ==
    /\ \A i \in 1..Len(GetLayers(w, v)) : w.layer[GetLayers(w, v)[i]].ready
    /\ CommandsWaitingExecutionCount(w, v) = 0
    /\ w.view[v].renderingState = RENDERING_PAUSED

AllLayersAreReadyCallbackRun(w, v) ==
    IF AllLayersAreReady(w, v)
    THEN RemoveFrameRequester(DispatchEvent(w, v, "layers-initialized", 0),
                              v, UPDATE_END, AllLayersAreReadyCallback)
    ELSE w

(***************************************************************************)
(* MainLoop: one cycle of a View.  A cycle starts when the scheduled       *)
(* animation frame fires; it runs the frame requesters of each attach      *)
(* point in order, the layer updates before UPDATE_END.                    *)
(***************************************************************************)
\* mutant: the queued removals are left for the MainLoop
ExecFrameRequestersBegin_SkipsRemovals(w, v, when, updateLoopRestarted) ==
    [w EXCEPT !.view[v].pc = "exec", !.view[v].point = when, !.view[v].idx = 1,
              !.view[v].restartedArg = updateLoopRestarted]

\* View.execFrameRequesters(when, ...) up to the start of its loop
\* (updateLoopRestarted is the argument of the call, kept for its loop)
ExecFrameRequestersBegin(w, v, when, updateLoopRestarted) ==
    LET w1 == IF when \in w.view[v].frHas /\ Len(w.view[v].delayed) > 0
              THEN ExecuteFrameRequestersRemovals(w, v) ELSE w
    IN [w1 EXCEPT !.view[v].pc = "exec", !.view[v].point = when, !.view[v].idx = 1,
                  !.view[v].restartedArg = updateLoopRestarted]

\* MainLoop step, up to the first attach point
StepBegin(w, v) ==
    LET w1 == ExecuteFrameRequestersRemovals(w, v)
        w2 == [w1 EXCEPT !.view[v].rafPending = FALSE,
                         !.view[v].needsRedraw = FALSE,
                         !.view[v].renderingState = RENDERING_PAUSED]
    IN ExecFrameRequestersBegin(w2, v, BEFORE_LAYER_UPDATE, w2.view[v].updateLoopRestarted)

\* What a frame requester of the application does when it is invoked
Behaviours == {"nothing", "removeSelf", "notifyChange", "removeAll", "addSelf"}

UserRequesterRun(w, v, when, f, b) ==
    CASE b = "removeSelf" -> RemoveFrameRequester(w, v, when, f)
      [] b = "notifyChange" -> NotifyChange(w, v, 0, TRUE)
      [] b = "removeAll" -> RemoveAllFrameRequesters(w, v)
      [] b = "addSelf" -> AddFrameRequester(w, v, when, f)
      [] OTHER -> w

\* mutant: only dt is forwarded, the requester sees no flag (falsy)
InvokeRequester_DropsFlag(w, v, b) ==
    LET when == w.view[v].point
        f == w.view[v].fr[when][w.view[v].idx]
        w1 == [w EXCEPT !.out.invoked = Append(@, <<when, f>>), !.view[v].idx = @ + 1,
                        !.out.flags = Append(@, FALSE)]
    IN IF f = AllLayersAreReadyCallback THEN AllLayersAreReadyCallbackRun(w1, v)
       ELSE UserRequesterRun(w1, v, when, f, b)

\* One turn of the loop of View.execFrameRequesters: the requester is given
\* the updateLoopRestarted argument of the call (out.flags)
InvokeRequester(w, v, b) ==
    LET when == w.view[v].point
        f == w.view[v].fr[when][w.view[v].idx]
        w1 == [w EXCEPT !.out.invoked = Append(@, <<when, f>>), !.view[v].idx = @ + 1,
                        !.out.flags = Append(@, w.view[v].restartedArg)]
    IN IF f = AllLayersAreReadyCallback THEN AllLayersAreReadyCallbackRun(w1, v)
       ELSE UserRequesterRun(w1, v, when, f, b)

\* End of a cycle: the next cycle is a first update when the loop is still
\* paused, that is when nothing notified a change during this cycle
StepEnd(w, v) ==
    [w EXCEPT !.view[v].pc = "idle",
              !.view[v].updateLoopRestarted = (w.view[v].renderingState = RENDERING_PAUSED)]

\* The loop of View.execFrameRequesters is over: the MainLoop goes on
ExecFrameRequestersEnd(w, v) ==
    LET when == w.view[v].point IN
    IF when = UPDATE_END THEN StepEnd(w, v)
    ELSE IF when + 1 = UPDATE_END THEN [w EXCEPT !.view[v].pc = "layers"]
    ELSE ExecFrameRequestersBegin(w, v, when + 1, w.view[v].updateLoopRestarted)

\* preUpdate / update of the root layers, Scheduler pump and render: the
\* layers may submit commands and notify changes.
UpdateLayers(w, v, submitted, notifies) ==
    LET w1 == [w EXCEPT !.view[v].cmds = @ + submitted, !.view[v].changeSources = {}]
        w2 == IF notifies /\ Len(w1.view[v].layers) > 0
              THEN NotifyChange(w1, v, w1.view[v].layers[1], TRUE) ELSE w1
    IN ExecFrameRequestersBegin(w2, v, UPDATE_END, w2.view[v].updateLoopRestarted)

\* A Scheduler command completes between two cycles; the issuing Layer gets
\* its result and notifies the View.
CommandDone(w, v) ==
    LET w1 == [w EXCEPT !.view[v].cmds = @ - 1]
    IN IF Len(w1.view[v].layers) > 0 THEN NotifyChange(w1, v, w1.view[v].layers[1], FALSE)
       ELSE NotifyChange(w1, v, 0, FALSE)

(***************************************************************************)
(* Settlement of the startup promises of a Layer (layer._promises): the    *)
(* reactions registered by addLayer run in registration order.             *)
(***************************************************************************)
RECURSIVE RunReactions(_, _)
RunReactions(w, rs) ==
    IF rs = <<>> \/ w.threw THEN w
    ELSE RunReactions(RunReaction(w, Head(rs)), Tail(rs))

Runnable(w) == SelectSeq(w.reactions, LAMBDA r : w.layer[r[2]].startup # "pending")
NotRunnable(w) == SelectSeq(w.reactions, LAMBDA r : w.layer[r[2]].startup = "pending")

DrainReactions(w) == RunReactions([w EXCEPT !.reactions = NotRunnable(w)], Runnable(w))

\* every startup promise of the Layer that is still pending settles
SettleStartup(w, l, outcome) ==
    DrainReactions([w EXCEPT !.layer[l].startup = outcome,
                             !.layer[l].promises =
                                 [i \in DOMAIN @ |-> IF @[i] = "pending" THEN outcome ELSE @[i]]])

\* mutant: the first promise that resolves is enough
PromiseAll_Race(ps) ==
    IF \E i \in DOMAIN ps : ps[i] = "rejected" THEN "rejected"
    ELSE IF \E i \in DOMAIN ps : ps[i] = "resolved" THEN "resolved"
    ELSE "pending"

\* Promise.all over the startup promises: rejected with the first
\* rejection, resolved when all are resolved
PromiseAll(ps) ==
    IF \E i \in DOMAIN ps : ps[i] = "rejected" THEN "rejected"
    ELSE IF \A i \in DOMAIN ps : ps[i] = "resolved" THEN "resolved"
    ELSE "pending"

\* one startup promise of the Layer settles
SettlePromise(w, l, i, outcome) ==
    LET ps == [w.layer[l].promises EXCEPT ![i] = outcome]
    IN DrainReactions([w EXCEPT !.layer[l].promises = ps,
                                !.layer[l].startup = PromiseAll(ps)])

(***************************************************************************)
(* Scheduler and TileNodes.  A command is named by its handle, its place   *)
(* in sched.commands; its state is queued, running, done or cancelled.  A  *)
(* fetch in flight is an entry of sched.ops: it is live while a command    *)
(* waits for it, abandoned otherwise; its result arrives off the MainLoop  *)
(* thread and is delivered on it.  The TileNodes 1 and 2 ask for the       *)
(* source key 1, the TileNode 3 for the source key 2.                      *)
(***************************************************************************)
Nodes == {1, 2, 3}
Keys == {1, 2}
KeyOf(n) == IF n = 3 THEN 2 ELSE 1
Results == {"a", "b", "error"}
\* simultaneous fetches
ConcurrencyCap == 1

InitSched == [commands |-> <<>>, ops |-> <<>>, started |-> 0,
              node |-> [n \in Nodes |-> "pending"]]

Outstanding(c) == c.state \in {"queued", "running"}

LiveOps(sc, key) == {i \in 1..Len(sc.ops) : sc.ops[i].live /\ sc.ops[i].key = key}
LiveCount(sc) == Cardinality({i \in 1..Len(sc.ops) : sc.ops[i].live})
LiveSerial(sc, key) == sc.ops[CHOOSE i \in LiveOps(sc, key) : TRUE].serial

\* scheduler.commandsWaitingExecutionCount()
WaitingExecutionCount(sc) ==
    Cardinality({h \in 1..Len(sc.commands) : Outstanding(sc.commands[h])})

\* mutant: a command never joins the fetch in flight for its key
Submit_NoSharing(w, key, n) ==
    [w EXCEPT !.sched.commands = Append(@,
        [key |-> key, node |-> n, cancelled |-> FALSE, result |-> "none",
         state |-> "queued", fetch |-> 0])]

\* submit(command): the command joins the fetch in flight for its key, if
\* any, and is queued otherwise
Submit(w, key, n) ==
    LET sc == w.sched
        joins == LiveOps(sc, key) # {}
    IN [w EXCEPT !.sched.commands = Append(@,
          [key |-> key, node |-> n, cancelled |-> FALSE, result |-> "none",
           state |-> IF joins THEN "running" ELSE "queued",
           fetch |-> IF joins THEN LiveSerial(sc, key) ELSE 0])]

\* pump(): the queued commands are started in order; a command whose key is
\* being fetched joins that fetch, another one starts a fetch when a slot
\* is free
RECURSIVE PumpFrom(_, _)
PumpFrom(w, h) ==
    IF h > Len(w.sched.commands) THEN w
    ELSE LET sc == w.sched
             c == sc.commands[h]
         IN IF c.state # "queued" THEN PumpFrom(w, h + 1)
            ELSE IF LiveOps(sc, c.key) # {}
            THEN PumpFrom([w EXCEPT !.sched.commands[h].state = "running",
                                    !.sched.commands[h].fetch = LiveSerial(sc, c.key)], h + 1)
            ELSE IF LiveCount(sc) < ConcurrencyCap
            THEN PumpFrom([w EXCEPT !.sched.commands[h].state = "running",
                                    !.sched.commands[h].fetch = sc.started + 1,
                                    !.sched.started = @ + 1,
                                    !.sched.ops = Append(@, [key |-> c.key, serial |-> sc.started + 1,
                                                             live |-> TRUE, result |-> "none"]),
                                    !.out.calls = Append(@, <<"fetch", c.key, sc.started + 1>>)],
                          h + 1)
            ELSE PumpFrom(w, h + 1)

Pump(w) == PumpFrom(w, 1)

\* the commands that wait for the fetch with this serial number
WaitingFor(sc, serial) ==
    {h \in 1..Len(sc.commands) : sc.commands[h].state = "running" /\ sc.commands[h].fetch = serial}

\* mutant: the fetch goes on as if the command still waited for it
Cancel_KeepsRunning(w, h) ==
    LET c == w.sched.commands[h]
    IN IF ~Outstanding(c) THEN w
       ELSE [w EXCEPT !.sched.commands[h].cancelled = TRUE]

\* cancel(handle): a queued command leaves the queue; a running command is
\* abandoned, and with its last command the fetch too, which frees its slot
Cancel(w, h) ==
    LET sc == w.sched
        c == sc.commands[h]
    IN IF ~Outstanding(c) THEN w
       ELSE LET w1 == [w EXCEPT !.sched.commands[h].cancelled = TRUE,
                                !.sched.commands[h].state = "cancelled"]
            IN IF c.state = "running" /\ WaitingFor(w1.sched, c.fetch) = {}
               THEN [w1 EXCEPT !.sched.ops =
                        [i \in 1..Len(sc.ops) |->
                           IF sc.ops[i].serial = c.fetch THEN [sc.ops[i] EXCEPT !.live = FALSE]
                           ELSE sc.ops[i]]]
               ELSE w1

\* mutant: a node that is loading is asked for again
Request_WhileLoading(w, n) ==
    IF w.sched.node[n] \in {"pending", "loading"}
    THEN Submit([w EXCEPT !.sched.node[n] = "loading"], KeyOf(n), n)
    ELSE w

\* Layer.update: a desired node that is neither displayed nor loading gets
\* a command
Request(w, n) ==
    IF w.sched.node[n] = "pending"
    THEN Submit([w EXCEPT !.sched.node[n] = "loading"], KeyOf(n), n)
    ELSE w

\* Layer.update: a node that is no longer desired is culled; when it is
\* loading its command is cancelled and it is pending again
RECURSIVE CancelAll(_, _)
CancelAll(w, hs) ==
    IF hs = {} THEN w
    ELSE LET h == CHOOSE x \in hs : TRUE IN CancelAll(Cancel(w, h), hs \ {h})

Unwanted(w, n) ==
    IF w.sched.node[n] = "loading"
    THEN [CancelAll(w, {h \in 1..Len(w.sched.commands) :
                          w.sched.commands[h].node = n /\ Outstanding(w.sched.commands[h])})
            EXCEPT !.sched.node[n] = "pending"]
    ELSE IF w.sched.node[n] = "displayed" THEN [w EXCEPT !.sched.node[n] = "culled"]
    ELSE w

\* the node is visible again (no fetch), or its payload is released
Regain(w, n) == IF w.sched.node[n] = "culled" THEN [w EXCEPT !.sched.node[n] = "displayed"] ELSE w
Evict(w, n) ==
    IF w.sched.node[n] \in {"displayed", "culled"} THEN [w EXCEPT !.sched.node[n] = "pending"] ELSE w

\* the result callback of a command, run by the Layer of its node: the
\* payload is attached, or the Layer retries or gives the node up
Callback(w, h, result, retry) ==
    LET n == w.sched.commands[h].node
        w1 == [w EXCEPT !.sched.commands[h].state = "done",
                        !.sched.commands[h].result = result,
                        !.out.calls = Append(@, <<"callback", h, result>>)]
    IN IF result # "error" THEN [w1 EXCEPT !.sched.node[n] = "displayed"]
       ELSE IF retry THEN Submit(w1, KeyOf(n), n)
       ELSE [w1 EXCEPT !.sched.node[n] = "error"]

RECURSIVE CallbackAll(_, _, _, _)
CallbackAll(w, hs, result, retry) ==
    IF hs = {} THEN w
    ELSE LET h == CHOOSE x \in hs : \A y \in hs : x <= y
         IN CallbackAll(Callback(w, h, result, retry), hs \ {h}, result, retry)

\* the result of the fetch i arrives, off the MainLoop thread
Arrive(w, i, result) == [w EXCEPT !.sched.ops[i].result = result]

\* mutant: the result is given to the commands cancelled in the meantime too
Deliver_IgnoresCancel(w, i, retry) ==
    LET op == w.sched.ops[i]
        w1 == [w EXCEPT !.sched.ops = RemoveAt(@, i)]
    IN CallbackAll(w1, {h \in 1..Len(w.sched.commands) :
                          w.sched.commands[h].fetch = op.serial
                          /\ w.sched.commands[h].state \in {"running", "cancelled"}},
                   op.result, retry)

\* the result of the fetch i is handed over on the MainLoop thread: the
\* commands that wait for it get it; the result of an abandoned fetch is
\* discarded
Deliver(w, i, retry) ==
    LET op == w.sched.ops[i]
        w1 == [w EXCEPT !.sched.ops = RemoveAt(@, i)]
    IN IF op.live THEN CallbackAll(w1, WaitingFor(w.sched, op.serial), op.result, retry)
       ELSE w1

(***************************************************************************)
(* Picking.  Positions and depths are measured along the axis of the       *)
(* camera: the camera is at cameraPosition and looks along                 *)
(* cameraDirection (1 or -1).  A depth buffer holds the ortho Z of the     *)
(* surface under the pixel.                                                *)
(***************************************************************************)
SanityBound == 10000000

Abs(n) == IF n < 0 THEN 0 - n ELSE n

\* mutant: the parent given by the caller is passed on
PlanarAddLayer_UsesArgument(w, v, l, p) == AddLayer(w, v, l, p)

\* PlanarView.addLayer(layer): super.addLayer(layer, this.tileLayer); a
\* second argument of the caller is ignored
PlanarAddLayer(w, v, l, p) == AddLayer(w, v, l, w.view[v].tileLayer)

\* PlanarView constructor: this.addLayer(tileLayer) while this.tileLayer is
\* still undefined, then this.tileLayer = tileLayer
PlanarTileLayer(w, v, l) ==
    [PlanarAddLayer(w, v, l, 0) EXCEPT !.view[v].tileLayer = l]

\* the tiled Layer builds its level-0 nodes; 0 stands for a missing entry
SetLevel0Nodes(w, l, nodes) == [w EXCEPT !.layer[l].level0Nodes = nodes]

\* the controls place the camera
MoveCamera(w, v, position, direction) ==
    [w EXCEPT !.view[v].cameraPosition = position,
              !.view[v].cameraDirection = direction]

\* this.tileLayer.level0Nodes.length == 0 || !this.tileLayer.level0Nodes[0]
NoLevel0Node(w, l) ==
    Len(w.layer[l].level0Nodes) = 0 \/ w.layer[l].level0Nodes[1] = 0

\* readDepthBuffer: the tiled Layer is rendered in depth mode; `rendered`
\* is what the renderer puts in the buffer, area is "full" for the whole
\* frame (0, 0, dim.x, dim.y) and "pixel" for (mouse.x, mouse.y, 1, 1)
ReadDepthBuffer(w, v, rendered, area) ==
    [w EXCEPT !.out.calls = Append(@, <<"renderViewToBuffer", v, rendered, area>>)]

\* this.#fullSizeDepthBuffer.slice(id, id + 4): the pixel is read from the
\* full-size buffer
SliceFullSizeDepthBuffer(w, v) ==
    [w EXCEPT !.out.calls = Append(@, <<"slice", v, w.view[v].fullSizeDepth, "full">>)]

ViewPaused(w, v) ==
    /\ CommandsWaitingExecutionCount(w, v) = 0
    /\ w.view[v].renderingState = RENDERING_PAUSED

\* mutant: the full frame is rendered at every paused pick
RefreshFullSizeDepthBuffer_Always(w, v, rendered) ==
    [ReadDepthBuffer(w, v, rendered, "full") EXCEPT !.view[v].fullSizeDepth = rendered,
                                                    !.view[v].depthStale = FALSE]

\* the full-size buffer is rendered again only when it needs an update
RefreshFullSizeDepthBuffer(w, v, rendered) ==
    IF w.view[v].depthStale
    THEN [ReadDepthBuffer(w, v, rendered, "full") EXCEPT !.view[v].fullSizeDepth = rendered,
                                                         !.view[v].depthStale = FALSE]
    ELSE w

\* target = camera position + ray direction * length
Unproject(w, v, depth) ==
    w.view[v].cameraPosition + w.view[v].cameraDirection * depth

\* mutant: the bound is applied to the depth read from the buffer
GetPickingPositionFromDepth_BoundsDepth(w, v, rendered) ==
    IF w.view[v].tileLayer = 0 \/ NoLevel0Node(w, w.view[v].tileLayer)
    THEN Return(w, "undefined")
    ELSE LET w1 == IF ViewPaused(w, v)
                   THEN SliceFullSizeDepthBuffer(RefreshFullSizeDepthBuffer(w, v, rendered), v)
                   ELSE ReadDepthBuffer(w, v, rendered, "pixel")
             depth == IF ViewPaused(w, v) THEN w1.view[v].fullSizeDepth ELSE rendered
             target == Unproject(w1, v, depth)
             w2 == [w1 EXCEPT !.out.l = depth, !.out.id = target]
         IN  IF depth > SanityBound
             THEN Return(w2, "undefined")
             ELSE Return(w2, "position")

\* out.l is the depth read from the buffer, out.id the unprojected position
GetPickingPositionFromDepth(w, v, rendered) ==
    IF w.view[v].tileLayer = 0 \/ NoLevel0Node(w, w.view[v].tileLayer)
    THEN Return(w, "undefined")
    ELSE LET w1 == IF ViewPaused(w, v)
                   THEN SliceFullSizeDepthBuffer(RefreshFullSizeDepthBuffer(w, v, rendered), v)
                   ELSE ReadDepthBuffer(w, v, rendered, "pixel")
             depth == IF ViewPaused(w, v) THEN w1.view[v].fullSizeDepth ELSE rendered
             target == Unproject(w1, v, depth)
             w2 == [w1 EXCEPT !.out.l = depth, !.out.id = target]
         IN  IF Abs(target) > SanityBound
             THEN Return(w2, "undefined")
             ELSE Return(w2, "position")

(***************************************************************************)
(* Initial state: every View constructed, no Layer added.                  *)
(***************************************************************************)
NoId == 0 - 1

InitView == [id |-> NoId, layers |-> <<>>, frHas |-> {}, fr |-> [k \in Points |-> <<>>],
             delayed |-> <<>>, changeSources |-> {}, depthStale |-> FALSE,
             fnRegistered |-> TRUE, xrPresenting |-> FALSE,
             bufferSize |-> 4 * ClientWidth * ClientHeight,
             rendererSize |-> <<ClientWidth, ClientHeight>>,
             cameraSize |-> <<ClientWidth, ClientHeight>>, renderingState |-> RENDERING_PAUSED,
             needsRedraw |-> FALSE, rafPending |-> FALSE,
             tileLayer |-> 0, fullSizeDepth |-> 0,
             cameraPosition |-> 0, cameraDirection |-> 1,
             updateLoopRestarted |-> TRUE, restartedArg |-> TRUE,
             labelListeners |-> 0,
             pc |-> "idle", point |-> 1, idx |-> 1, cmds |-> 0]

InitLayer(o) == [attachedLayers |-> <<>>, parent |-> 0, crs |-> InitCrs(o),
                 extent |-> InitExtent(o), sequence |-> 0, inScene |-> FALSE,
                 level0Nodes |-> <<>>, labelChain |-> 0,
                 promises |-> [i \in 1..MaxPromises |-> "pending"], startup |-> "pending",
                 whenReady |-> "pending", ready |-> FALSE]

InitHist == [firedLI |-> FALSE, roundPending |-> FALSE, srAny |-> {}, sr |-> {}, srNext |-> {},
             resized |-> <<>>, ids |-> <<>>,
             notifiedInCycle |-> FALSE, notifiedPrev |-> FALSE, fullFrameFresh |-> FALSE]

\* The values given as viewerDiv: none, an element of the page, and a value
\* that is not an element (the id of the element, a string)
NoDiv == 0
ElementDiv == 1
StringDiv == 2
IsElement(viewerDiv) == viewerDiv = ElementDiv

\* mutant: the id is taken only once the View is registered
Construct_CountsRegistered(w, v, viewerDiv) ==
    IF viewerDiv = NoDiv THEN Throw(w)
    ELSE IF ~IsElement(viewerDiv) THEN Throw(w)
    ELSE Return([w EXCEPT !.view[v] = [InitView EXCEPT !.id = w.id],
                          !.id = @ + 1,
                          !.out.id = w.id,
                          !.viewers = Append(@, v)], "constructed")

\* new View(crs, viewerDiv): the check of viewerDiv, this.id = id++, the
\* engine, the camera and the listeners of this.domElement (focus and
\* addEventListener throw a TypeError on a value that is not an element),
\* then viewers.push(this).  A View whose constructor throws is discarded.
Construct(w, v, viewerDiv) ==
    IF viewerDiv = NoDiv THEN Throw(w)
    ELSE LET w1 == [w EXCEPT !.id = @ + 1, !.out.id = w.id]
         IN  IF ~IsElement(viewerDiv) THEN Throw(w1)
             ELSE Return([w1 EXCEPT !.view[v] = [InitView EXCEPT !.id = w.id],
                                    !.viewers = Append(@, v)], "constructed")

Init ==
    /\ viewers = <<1, 2>>
    /\ id = 2
    /\ view = [v \in Views |-> [InitView EXCEPT !.id = v - 1]]
    /\ layer = [o \in Objs |-> InitLayer(o)]
    /\ source = [s \in Sources |-> [extent |-> 0]]
    /\ reactions = <<>>
    /\ sched = InitSched
    /\ out = NoOut
    /\ hist = [v \in Views |-> [InitHist EXCEPT !.ids = <<v - 1>>]]

\* The state before any View is constructed
InitNoView ==
    /\ viewers = <<>>
    /\ id = 0
    /\ view = [v \in Views |-> InitView]
    /\ layer = [o \in Objs |-> InitLayer(o)]
    /\ source = [s \in Sources |-> [extent |-> 0]]
    /\ reactions = <<>>
    /\ sched = InitSched
    /\ out = NoOut
    /\ hist = [v \in Views |-> InitHist]

(***************************************************************************)
(* History of a View, kept for the properties only.                        *)
(***************************************************************************)
RegistrationCount(vw, f) ==
    LET n[k \in 0..UPDATE_END] ==
          IF k = 0 THEN 0
          ELSE n[k - 1] + Len(SelectSeq(vw.fr[k], LAMBDA x : x = f))
    IN n[UPDATE_END]

Dispatched(o, v, type) == \E i \in 1..Len(o.events) : o.events[i][1] = v /\ o.events[i][2] = type

\* The requester invoked by the step that o describes removed itself
SelfRemoval(o, v) ==
    /\ o.op = "invoke" /\ o.v = v
    /\ \/ o.beh = "removeSelf"
       \/ Dispatched(o, v, "layers-initialized")

InvokedBy(o) == o.invoked[1][2]
InvokedAt(o) == o.invoked[1][1]

\* srAny: the registrations <<attach point, requester>> whose requester
\* removed itself from that attach point during its own invocation and was
\* not added to that list again since; sr: those whose requester was
\* registered exactly once in the View at that time and was not registered
\* again anywhere since; srNext: those of srAny for which a cycle has started
\* since the removal; fullFrameFresh: the full frame was rendered into the
\* full-size depth buffer after the buffer was last allocated and after the
\* last notifyChange of a camera or of a tile mesh.
NextHist(w, v) ==
    LET h == hist[v]
        o == w.out
        listGrew == {k \in Points : \E f \in {AllLayersAreReadyCallback} \cup UserRequesters :
                       Len(SelectSeq(w.view[v].fr[k], LAMBDA x : x = f))
                         > Len(SelectSeq(view[v].fr[k], LAMBDA x : x = f))}
        readdedAt == {q \in h.srAny :
                       Len(SelectSeq(w.view[v].fr[q[1]], LAMBDA x : x = q[2]))
                         > Len(SelectSeq(view[v].fr[q[1]], LAMBDA x : x = q[2]))}
        readded == {q \in h.sr : RegistrationCount(w.view[v], q[2]) > RegistrationCount(view[v], q[2])}
        self == IF SelfRemoval(o, v) THEN {o.invoked[1]} ELSE {}
        selfOnce == {q \in self : RegistrationCount(view[v], q[2]) = 1}
        starts == o.op = "step" /\ o.v = v
        any1 == (h.srAny \ readdedAt) \cup self
        inCycle == o.v = v /\ o.op \in {"step", "invoke", "execEnd", "updateLayers"}
        notified == h.notifiedInCycle
                      \/ (inCycle /\ \E i \in 1..Len(o.changes) : o.changes[i][1] = v)
        cycleEnds == inCycle /\ w.view[v].pc = "idle"
        allocated == \/ o.op = "construct" /\ o.v = v
                     \/ o.op = "resize" /\ o.v = v
                          /\ \E i \in 1..Len(o.calls) : o.calls[i][1] = "newBuffer"
        moved == \E i \in 1..Len(o.changes) :
                    /\ o.changes[i][1] = v
                    /\ IsCamera(o.changes[i][2]) \/ IsTileMesh(o.changes[i][2])
        fullFrame == o.op = "pick" /\ o.v = v
                       /\ \E i \in 1..Len(o.calls) :
                             o.calls[i][1] = "renderViewToBuffer" /\ o.calls[i][4] = "full"
        added == \E i \in 1..Len(o.events) :
                    /\ o.events[i][1] = v /\ o.events[i][2] = "layer-added"
                    /\ \E j \in 1..Len(GetLayers(w, v)) : IdOf(GetLayers(w, v)[j]) = o.events[i][3]
    IN [firedLI |-> h.firedLI \/ Dispatched(o, v, "layers-initialized"),
        roundPending |-> IF Dispatched(o, v, "layers-initialized") THEN FALSE
                         ELSE h.roundPending \/ (h.firedLI /\ added),
        srAny |-> any1,
        sr |-> (((h.sr \ readded) \ self) \cup selfOnce) \cap any1,
        srNext |-> IF starts THEN any1 ELSE (h.srNext \cap any1) \ self,
        resized |-> IF o.op = "resize" /\ o.v = v /\ o.ret = "resized"
                    THEN w.view[v].rendererSize ELSE h.resized,
        ids |-> IF o.op = "construct" /\ o.v = v /\ o.ret = "constructed"
                THEN Append(h.ids, w.view[v].id) ELSE h.ids,
        notifiedInCycle |-> IF cycleEnds THEN FALSE ELSE notified,
        notifiedPrev |-> IF cycleEnds THEN notified ELSE h.notifiedPrev,
        fullFrameFresh |-> IF fullFrame THEN TRUE
                           ELSE IF allocated \/ moved THEN FALSE ELSE h.fullFrameFresh]

Commit(w) ==
    /\ viewers' = w.viewers
    /\ id' = w.id
    /\ view' = w.view
    /\ layer' = w.layer
    /\ source' = w.source
    /\ reactions' = w.reactions
    /\ sched' = w.sched
    /\ out' = w.out
    /\ hist' = [v \in Views |-> NextHist(w, v)]

(***************************************************************************)
(* Actions.  The application calls the View between two cycles; during a   *)
(* cycle only the frame requesters and the layer updates run.  A cycle     *)
(* starts only when no promise reaction is runnable (microtasks run before *)
(* the next animation frame).                                              *)
(***************************************************************************)
Idle == \A v \in Views : view[v].pc = "idle"

\* with the callbacks chained on a whenReady that is already resolved
DoAddLayer(v, l, p) ==
    /\ Idle
    /\ Len(reactions) < MaxPending
    /\ p # 0 => Len(layer[p].attachedLayers) < MaxAttached
    /\ AddLabelLayer(l) => view[v].labelListeners < MaxLabelled /\ layer[l].labelChain < MaxLabelled
    /\ Commit(RunLabelChain(AddLayer(Begin("addLayer", v, l, p, IdOf(l)), v, l, p), v, l))

DoRemoveLayer(v, layerId) ==
    /\ Idle
    /\ Commit(RemoveLayer(Begin("removeLayer", v, GetLayerById(World, v, layerId), 0, layerId), v, layerId))

DoSettleStartup(l, outcome) ==
    /\ Idle
    /\ layer[l].startup = "pending"
    /\ Commit(SettleStartup(Begin("settle", ViewOf(l), l, 0, IdOf(l)), l, outcome))

DoSettlePromise(l, i, outcome) ==
    /\ Idle
    /\ layer[l].promises[i] = "pending"
    /\ Commit(SettlePromise(Begin("settlePromise", ViewOf(l), l, 0, IdOf(l)), l, i, outcome))

DoRunReactions ==
    /\ Idle
    /\ Runnable(World) # <<>>
    /\ Commit(DrainReactions(Begin("reactions", 0, 0, 0, 0)))

DoDispose(v) ==
    /\ Idle
    /\ Commit(Dispose(Begin("dispose", v, 0, 0, 0), v))

DoAddFrameRequester(v, when, f) ==
    /\ Idle
    /\ Len(view[v].fr[when]) < MaxListLen
    /\ Commit(AddFrameRequester(Begin("addFrameRequester", v, 0, when, f), v, when, f))

DoRemoveFrameRequester(v, when, f) ==
    /\ Idle
    /\ Len(view[v].delayed) < MaxListLen
    /\ Commit(RemoveFrameRequester(Begin("removeFrameRequester", v, 0, when, f), v, when, f))

\* execFrameRequesters(when, dt, true) called outside a MainLoop cycle
DoExecFrameRequesters(v, when) ==
    /\ Idle
    /\ Commit(ExecFrameRequestersBegin(Begin("execFrameRequesters", v, 0, when, 0), v, when, TRUE))

DoRemoveAllFrameRequesters(v) ==
    /\ Idle
    /\ Commit(RemoveAllFrameRequesters(Begin("removeAllFrameRequesters", v, 0, 0, 0), v))

DoNotifyChange(v) ==
    /\ Idle
    /\ Commit(NotifyChange(Begin("notifyChange", v, 0, 0, 0), v, Camera, TRUE))

\* notifyChange(changeSource, needsRedraw) with both arguments given
DoNotifyChangeWith(v, changeSource, needsRedraw) ==
    /\ Idle
    /\ Commit(NotifyChange([Begin("notifyChange", v, 0, changeSource, 0)
                               EXCEPT !.out.beh = IF needsRedraw THEN "true" ELSE "false"],
                           v, changeSource, needsRedraw))

\* notifyChange(changeSource) and notifyChange()
DoNotifyChangeDefault(v, changeSource) ==
    /\ Idle
    /\ Commit(NotifyChangeDefault([Begin("notifyChange", v, 0, changeSource, 0)
                                      EXCEPT !.out.beh = "default"], v, changeSource))

\* An XR session starts or ends on the renderer of the View
DoXrSession(v, presenting) ==
    /\ Idle
    /\ view[v].xrPresenting # presenting
    /\ Commit([Begin("xr", v, 0, 0, 0) EXCEPT !.view[v].xrPresenting = presenting])

\* resize(width, height): the arguments are kept in the l and p fields
DoResize(v, width, height) ==
    /\ Idle
    /\ Commit(Resize(Begin("resize", v, width, height, 0), v, width, height))

DoPlanarTileLayer(v, l) ==
    /\ Idle
    /\ view[v].tileLayer = 0
    /\ Len(reactions) < MaxPending
    /\ Commit(PlanarTileLayer(Begin("tileLayer", v, l, 0, IdOf(l)), v, l))

DoPlanarAddLayer(v, l, p) ==
    /\ Idle
    /\ view[v].tileLayer # 0
    /\ Len(reactions) < MaxPending
    /\ Len(layer[view[v].tileLayer].attachedLayers) < MaxAttached
    /\ p # 0 => Len(layer[p].attachedLayers) < MaxAttached
    /\ Commit(PlanarAddLayer(Begin("addLayer", v, l, p, IdOf(l)), v, l, p))

DoRequest(n) ==
    /\ Idle
    /\ Len(sched.commands) < MaxSubmitted
    /\ Commit(Request(Begin("request", 0, 0, n, 0), n))

DoUnwanted(n) ==
    /\ Idle
    /\ sched.node[n] \in {"loading", "displayed"}
    /\ Commit(Unwanted(Begin("unwanted", 0, 0, n, 0), n))

DoRegain(n) ==
    /\ Idle
    /\ sched.node[n] = "culled"
    /\ Commit(Regain(Begin("regain", 0, 0, n, 0), n))

DoEvict(n) ==
    /\ Idle
    /\ sched.node[n] \in {"displayed", "culled"}
    /\ Commit(Evict(Begin("evict", 0, 0, n, 0), n))

DoPump ==
    /\ Idle
    /\ \E h \in 1..Len(sched.commands) : sched.commands[h].state = "queued"
    /\ Commit(Pump(Begin("pump", 0, 0, 0, 0)))

DoArrive(i, result) ==
    /\ i \in 1..Len(sched.ops)
    /\ sched.ops[i].result = "none"
    /\ Commit(Arrive(Begin("arrive", 0, 0, i, 0), i, result))

DoDeliver(i, retry) ==
    /\ Idle
    /\ i \in 1..Len(sched.ops)
    /\ sched.ops[i].result # "none"
    /\ retry => /\ sched.ops[i].result = "error"
                /\ sched.ops[i].live
                /\ Len(sched.commands) + Cardinality(WaitingFor(sched, sched.ops[i].serial))
                      <= MaxSubmitted
    /\ Commit(Deliver(Begin("deliver", 0, 0, sched.ops[i].serial, 0), i, retry))

DoSetLevel0Nodes(l, nodes) ==
    /\ Idle
    /\ layer[l].level0Nodes # nodes
    /\ Commit(SetLevel0Nodes(Begin("level0Nodes", ViewOf(l), l, 0, 0), l, nodes))

DoMoveCamera(v, position, direction) ==
    /\ Idle
    /\ <<position, direction>> # <<view[v].cameraPosition, view[v].cameraDirection>>
    /\ Commit(MoveCamera(Begin("moveCamera", v, 0, 0, 0), v, position, direction))

DoGetPickingPositionFromDepth(v, rendered) ==
    /\ Idle
    /\ Commit(GetPickingPositionFromDepth(Begin("pick", v, 0, rendered, 0), v, rendered))

\* A new View takes the place v when no active View holds it
DoConstruct(v, viewerDiv) ==
    /\ Idle
    /\ ~Includes(viewers, v)
    /\ id < MaxViews
    /\ Commit(Construct(Begin("construct", v, 0, viewerDiv, NoId), v, viewerDiv))

DoCommandDone(v) ==
    /\ Idle
    /\ view[v].cmds > 0
    /\ Commit(CommandDone(Begin("commandDone", v, 0, 0, 0), v))

DoStepBegin(v) ==
    /\ Idle
    /\ view[v].rafPending
    /\ Runnable(World) = <<>>
    /\ Commit(StepBegin(Begin("step", v, 0, 0, 0), v))

DoInvokeRequester(v, b) ==
    /\ view[v].pc = "exec"
    /\ view[v].idx <= Len(view[v].fr[view[v].point])
    /\ b # "nothing" => view[v].fr[view[v].point][view[v].idx] # AllLayersAreReadyCallback
    /\ b = "addSelf" => Len(view[v].fr[view[v].point]) < MaxListLen
    /\ b = "removeSelf" => Len(view[v].delayed) < MaxListLen
    /\ Commit(InvokeRequester([Begin("invoke", v, 0, 0, 0) EXCEPT !.out.beh = b], v, b))

DoExecFrameRequestersEnd(v) ==
    /\ view[v].pc = "exec"
    /\ view[v].idx > Len(view[v].fr[view[v].point])
    /\ Commit(ExecFrameRequestersEnd(Begin("execEnd", v, 0, 0, 0), v))

DoUpdateLayers(v, submitted, notifies) ==
    /\ view[v].pc = "layers"
    /\ view[v].cmds + submitted <= MaxCommands
    /\ Commit(UpdateLayers(Begin("updateLayers", v, 0, 0, 0), v, submitted, notifies))

(***************************************************************************)
(* Spec: the layer collections of all the Views (no animation frame        *)
(* fires).                                                                 *)
(***************************************************************************)
Next ==
    \/ \E v \in Views : \E l \in LayersOfView(v) : \E p \in (ParentsOfView(v) \cup {0}) \ {l} :
          DoAddLayer(v, l, p)
    \/ \E v \in Views : \E l \in LayersOfView(v) : DoRemoveLayer(v, IdOf(l))
    \/ \E v \in Views : DoDispose(v)

Spec == Init /\ [][Next]_vars

(***************************************************************************)
(* LoopSpec: View 1 with its MainLoop and its frame requesters; the        *)
(* application registers and removes a requester at both attach points,    *)
(* and adds the Layer P.                                                   *)
(***************************************************************************)
LoopNext ==
    \/ DoAddLayer(1, P, 0)
    \/ DoSettleStartup(P, "resolved")
    \/ DoRunReactions
    \/ \E when \in Points : \E f \in UserRequesters : DoAddFrameRequester(1, when, f)
    \/ \E when \in Points : \E f \in UserRequesters : DoRemoveFrameRequester(1, when, f)
    \/ DoRemoveAllFrameRequesters(1)
    \/ DoNotifyChange(1)
    \/ DoStepBegin(1)
    \/ \E b \in Behaviours : DoInvokeRequester(1, b)
    \/ DoExecFrameRequestersEnd(1)
    \/ DoUpdateLayers(1, 0, FALSE)

LoopSpec == Init /\ [][LoopNext]_vars

(***************************************************************************)
(* ReadySpec: View 1 with its MainLoop, the Layers P and X added as roots, *)
(* their startup, the Scheduler commands of the layer updates.             *)
(***************************************************************************)
ReadyNext ==
    \/ \E l \in {P, X} : DoAddLayer(1, l, 0)
    \/ \E l \in {P, X} : DoSettleStartup(l, "resolved")
    \/ DoRunReactions
    \/ DoNotifyChange(1)
    \/ DoCommandDone(1)
    \/ DoStepBegin(1)
    \/ DoInvokeRequester(1, "nothing")
    \/ DoExecFrameRequestersEnd(1)
    \/ \E submitted \in 0..1 : \E notifies \in BOOLEAN : DoUpdateLayers(1, submitted, notifies)

ReadySpec == Init /\ [][ReadyNext]_vars

(***************************************************************************)
(* NotifySpec: View 1 with its MainLoop; the application notifies changes  *)
(* of every kind of source, with and without an XR session.                *)
(***************************************************************************)
ChangeSources == {0, Camera, Camera3D, TileMesh, P}

NotifyNext ==
    \/ \E c \in ChangeSources : \E r \in BOOLEAN : DoNotifyChangeWith(1, c, r)
    \/ \E c \in ChangeSources : DoNotifyChangeDefault(1, c)
    \/ \E b \in BOOLEAN : DoXrSession(1, b)
    \/ DoStepBegin(1)
    \/ DoExecFrameRequestersEnd(1)
    \/ DoUpdateLayers(1, 0, FALSE)

NotifySpec == Init /\ [][NotifyNext]_vars

(***************************************************************************)
(* ResizeSpec: View 1 with its MainLoop; the application resizes the View  *)
(* and tile meshes notify changes.                                         *)
(***************************************************************************)
MaxSize == 2
Sizes == (0 - 1)..MaxSize \cup {NoArg}

ResizeNext ==
    \/ \E width, height \in Sizes : DoResize(1, width, height)
    \/ DoNotifyChangeWith(1, TileMesh, FALSE)
    \/ DoStepBegin(1)
    \/ DoExecFrameRequestersEnd(1)
    \/ DoUpdateLayers(1, 0, FALSE)

ResizeSpec == Init /\ [][ResizeNext]_vars

(***************************************************************************)
(* ConfigSpec: View 1; the application adds and removes the Layers P and X *)
(* and the faulty arguments N, Z and W; the Layer P starts up.             *)
(***************************************************************************)
ConfigNext ==
    \/ \E l \in {P, X, N, Z, W} : \E p \in {0, P} \ {l} : DoAddLayer(1, l, p)
    \/ \E l \in {P, X, Z} : DoRemoveLayer(1, IdOf(l))
    \/ DoSettleStartup(P, "resolved")
    \/ DoRunReactions

ConfigSpec == Init /\ [][ConfigNext]_vars

(***************************************************************************)
(* PromiseSpec: View 1; the application adds the Layers P and X and        *)
(* removes X, and the startup promises of the Layers settle one by one.    *)
(***************************************************************************)
PromiseNext ==
    \/ \E l \in {P, X} : \E p \in {0, P} \ {l} : DoAddLayer(1, l, p)
    \/ DoRemoveLayer(1, IdOf(X))
    \/ \E l \in {P, X} : \E i \in 1..MaxPromises : \E outcome \in {"resolved", "rejected"} :
          DoSettlePromise(l, i, outcome)
    \/ DoRunReactions

PromiseSpec == Init /\ [][PromiseNext]_vars

(***************************************************************************)
(* DisposeSpec: both Views; the application adds and removes the Layers P  *)
(* and X of View 1, registers and removes a frame requester, and disposes  *)
(* of the Views.                                                           *)
(***************************************************************************)
DisposeNext ==
    \/ \E l \in {P, X} : \E p \in {0, P} \ {l} : DoAddLayer(1, l, p)
    \/ \E l \in {P, X} : DoRemoveLayer(1, IdOf(l))
    \/ \E f \in UserRequesters : DoAddFrameRequester(1, BEFORE_LAYER_UPDATE, f)
    \/ \E f \in UserRequesters : DoRemoveFrameRequester(1, BEFORE_LAYER_UPDATE, f)
    \/ \E v \in Views : DoDispose(v)

DisposeSpec == Init /\ [][DisposeNext]_vars

(***************************************************************************)
(* PickSpec: View 1 is given the tiled Layer P; the camera is placed near  *)
(* the origin or far from it, the application picks between and during the *)
(* cycles of the MainLoop.                                                 *)
(***************************************************************************)
CameraPositions == {0, 20000000}
Depths == {100, 15000000}
Level0Nodes == {<<>>, <<0>>, <<TileMesh>>}

PickNext ==
    \/ DoPlanarTileLayer(1, P)
    \/ \E nodes \in Level0Nodes : DoSetLevel0Nodes(P, nodes)
    \/ \E position \in CameraPositions : \E direction \in {1, 0 - 1} :
          DoMoveCamera(1, position, direction)
    \/ \E rendered \in Depths : DoGetPickingPositionFromDepth(1, rendered)
    \/ DoNotifyChangeWith(1, Camera3D, TRUE)
    \/ DoStepBegin(1)
    \/ DoExecFrameRequestersEnd(1)
    \/ DoUpdateLayers(1, 0, FALSE)

PickSpec == Init /\ [][PickNext]_vars

(***************************************************************************)
(* CacheSpec: View 1 is given the tiled Layer P and its level-0 node; the  *)
(* application picks, resizes the View and starts XR sessions, cameras and *)
(* tile meshes notify changes, the Layers submit commands during the       *)
(* cycles of the MainLoop.                                                 *)
(***************************************************************************)
CacheSizes == {0, MaxSize}

CacheNext ==
    \/ DoPlanarTileLayer(1, P)
    \/ \E nodes \in {<<>>, <<TileMesh>>} : DoSetLevel0Nodes(P, nodes)
    \/ \E rendered \in Depths : DoGetPickingPositionFromDepth(1, rendered)
    \/ \E c \in {Camera3D, TileMesh, P} : DoNotifyChangeWith(1, c, TRUE)
    \/ \E b \in BOOLEAN : DoXrSession(1, b)
    \/ \E width, height \in CacheSizes : DoResize(1, width, height)
    \/ DoStepBegin(1)
    \/ DoExecFrameRequestersEnd(1)
    \/ \E submitted \in 0..1 : DoUpdateLayers(1, submitted, FALSE)
    \/ DoCommandDone(1)

CacheSpec == Init /\ [][CacheNext]_vars

(***************************************************************************)
(* IdSpec: no View at first; the application constructs Views with a       *)
(* viewerDiv that is an element, a string or nothing, registers frame      *)
(* requesters and disposes of the Views.                                   *)
(***************************************************************************)
IdNext ==
    \/ \E v \in Views : \E viewerDiv \in {NoDiv, ElementDiv, StringDiv} : DoConstruct(v, viewerDiv)
    \/ \E v \in Views : DoDispose(v)
    \/ \E v \in Views : \E f \in UserRequesters :
          Includes(viewers, v) /\ DoAddFrameRequester(v, BEFORE_LAYER_UPDATE, f)

IdSpec == InitNoView /\ [][IdNext]_vars

(***************************************************************************)
(* InheritSpec: View 1; the Layers P, X and K are constructed with or      *)
(* without a crs and an extent, the Source of the color Layers with or     *)
(* without an extent; the application adds P and X under a parent.         *)
(***************************************************************************)
OwnCrs == 3
OwnExtent == 4

InheritInit ==
    /\ viewers = <<1, 2>>
    /\ id = 2
    /\ view = [v \in Views |-> [InitView EXCEPT !.id = v - 1]]
    /\ \E crsX, crsP \in {0, OwnCrs} : \E extentX, extentK \in {0, OwnExtent} :
          layer = [o \in Objs |->
                     [InitLayer(o) EXCEPT
                        !.crs = IF o = X THEN crsX ELSE IF o = P THEN crsP ELSE @,
                        !.extent = IF o = X THEN extentX ELSE IF o = K THEN extentK ELSE @]]
    /\ \E extentS \in {0, OwnExtent} :
          source = [s \in Sources |-> [extent |-> IF s = SourceOf(X) THEN extentS ELSE 0]]
    /\ reactions = <<>>
    /\ sched = InitSched
    /\ out = NoOut
    /\ hist = [v \in Views |-> [InitHist EXCEPT !.ids = <<v - 1>>]]

InheritNext ==
    \/ \E l \in {P, X} : \E p \in {0, P, K} \ {l} : DoAddLayer(1, l, p)
    \/ DoRemoveLayer(1, IdOf(P))

InheritSpec == InheritInit /\ [][InheritNext]_vars

(***************************************************************************)
(* PlanarSpec: View 1 is a PlanarView built with the tile Layer P; the     *)
(* application adds P, X and K with any parent argument and removes them.  *)
(***************************************************************************)
PlanarNext ==
    \/ DoPlanarTileLayer(1, P)
    \/ \E l \in {P, X, K} : \E p \in {0, P, K} \ {l} : DoPlanarAddLayer(1, l, p)
    \/ \E l \in {P, X, K} : DoRemoveLayer(1, IdOf(l))

PlanarSpec == Init /\ [][PlanarNext]_vars

(***************************************************************************)
(* SchedSpec: the Layer of the TileNodes asks for them, gives them up and  *)
(* gets the results; the Scheduler is pumped and the fetches complete.     *)
(***************************************************************************)
SchedNext ==
    \/ \E n \in Nodes : DoRequest(n)
    \/ \E n \in Nodes : DoUnwanted(n)
    \/ \E n \in Nodes : DoRegain(n)
    \/ \E n \in Nodes : DoEvict(n)
    \/ DoPump
    \/ \E i \in 1..MaxSubmitted : \E result \in Results : DoArrive(i, result)
    \/ \E i \in 1..MaxSubmitted : \E retry \in BOOLEAN : DoDeliver(i, retry)

SchedSpec == Init /\ [][SchedNext]_vars

(***************************************************************************)
(* SequenceSpec: View 1; the application adds the tiled Layer P and the    *)
(* color Layers X and K, and removes them.                                 *)
(***************************************************************************)
SequenceNext ==
    \/ \E l \in {P, X, K} : \E p \in {0, P} \ {l} : DoAddLayer(1, l, p)
    \/ \E l \in {P, X, K} : DoRemoveLayer(1, IdOf(l))

SequenceSpec == Init /\ [][SequenceNext]_vars

(***************************************************************************)
(* RemoveSpec: View 1 with the tiled Layer P and the color Layers X and Y, *)
(* which have the same id; P is added as a root, X under P, Y under P or   *)
(* as a root, in any order and with removals in between; the startup       *)
(* promises of P resolve at any time.                                      *)
(***************************************************************************)
RemoveNext ==
    \/ DoAddLayer(1, P, 0)
    \/ DoAddLayer(1, X, P)
    \/ \E p \in {0, P} : DoAddLayer(1, Y, p)
    \/ \E l \in {P, X} : DoRemoveLayer(1, IdOf(l))
    \/ DoSettleStartup(P, "resolved")
    \/ DoRunReactions

RemoveSpec == Init /\ [][RemoveNext]_vars

(***************************************************************************)
(* LabelSpec: View 1 with the tiled Layer P, the color Layer X and the     *)
(* color Layer L that has label support; the Layers are added and removed  *)
(* in any order and their startup promises resolve at any time.            *)
(***************************************************************************)
LabelNext ==
    \/ DoAddLayer(1, P, 0)
    \/ \E l \in {X, L} : DoAddLayer(1, l, P)
    \/ \E l \in {X, L, LL} : DoRemoveLayer(1, IdOf(l))
    \/ \E l \in {P, X, L, LL} : DoSettleStartup(l, "resolved")
    \/ DoRunReactions

LabelSpec == Init /\ [][LabelNext]_vars

(***************************************************************************)
(* LateSpec: the Layer P is added to View 1 and the Layer X is added under *)
(* P while P is a root of the View; the Layers are removed, View 1 is      *)
(* disposed of, and the startup promises resolve at any time, before or    *)
(* after.                                                                  *)
(***************************************************************************)
LateNext ==
    \/ DoAddLayer(1, P, 0)
    \/ Includes(view[1].layers, P) /\ DoAddLayer(1, X, P)
    \/ \E l \in {P, X} : DoRemoveLayer(1, IdOf(l))
    \/ DoDispose(1)
    \/ \E l \in {P, X} : DoSettleStartup(l, "resolved")
    \/ DoRunReactions

LateSpec == Init /\ [][LateNext]_vars

(***************************************************************************)
(* ExecSpec: the application registers a requester at the attach points of *)
(* View 1, requests its removal and calls execFrameRequesters itself; the  *)
(* requester may remove itself or register itself again when invoked.      *)
(***************************************************************************)
ExecNext ==
    \/ \E when \in Points : \E f \in UserRequesters : DoAddFrameRequester(1, when, f)
    \/ \E when \in Points : \E f \in UserRequesters : DoRemoveFrameRequester(1, when, f)
    \/ \E when \in Points : DoExecFrameRequesters(1, when)
    \/ \E b \in {"nothing", "removeSelf", "addSelf"} : DoInvokeRequester(1, b)
    \/ DoExecFrameRequestersEnd(1)
    \/ DoUpdateLayers(1, 0, FALSE)

ExecSpec == Init /\ [][ExecNext]_vars

TypeOK == /\ \A v \in Views : view[v].pc \in {"idle", "exec", "layers"}
          /\ \A o \in LayerObjs : layer[o].parent \in LayerObjs \cup {0}

(***************************************************************************)
(* Properties of the layer collection (Spec)                               *)
(***************************************************************************)
Range(seq) == {seq[i] : i \in 1..Len(seq)}

\* The Layers of a View: its roots and the Layers attached to its roots
LayersIn(v) == Range(view[v].layers)
                 \cup UNION {Range(layer[r].attachedLayers) : r \in Range(view[v].layers)}

AddLayerReturned == out.op = "addLayer" /\ out.ret = "whenReady"
RemoveLayerReturned == out.op = "removeLayer" /\ out.ret = "true"

\* C1: for a valid Layer whose id is not used in the View, once
\* addLayer(layer[, parentLayer]) has returned, getLayerById(layer.id)
\* returns that same Layer object.
C1_AddThenGetById ==
    AddLayerReturned => GetLayerById(World, out.v, out.id) = out.l

\* C2: when addLayer is called with a Layer whose id is already used by
\* another Layer of the View, the second Layer is rejected (addLayer returns
\* its rejected readiness promise and it is not added) and the first is
\* left intact: it is still the Layer returned by getLayerById, with the
\* same attachment, its readiness promise is not rejected by the call (the
\* Layer is as it was), and the layer set of the View is unchanged.
C2_DuplicateRejected ==
    [][ \A v \in Views : \A l \in LayerObjs :
          LET first == GetLayerById(World, v, IdOf(l)) IN
          (out'.op = "addLayer" /\ out'.v = v /\ out'.l = l /\ first # 0 /\ first # l)
          => /\ out'.ret = "rejected"
             /\ layer'[l].whenReady = "rejected"
             /\ layer'[l].parent = layer[l].parent
             /\ GetLayerById(World', v, IdOf(l)) = first
             /\ layer'[first] = layer[first]
             /\ view'[v].layers = view[v].layers
             /\ GetLayers(World', v) = GetLayers(World, v)
             /\ reactions' = reactions ]_vars

C2_Witness ==
    /\ out.op = "addLayer" /\ out.ret = "rejected" /\ out.l = Y
    /\ GetLayerById(World, out.v, out.id) = X
    /\ layer[X].parent = P /\ layer[X].whenReady = "pending"

\* C3: after any sequence of addLayer and removeLayer calls, no two Layers
\* returned by getLayers() have the same id.
C3_UniqueIds ==
    \A v \in Views : \A i, j \in 1..Len(GetLayers(World, v)) :
        GetLayers(World, v)[i] # GetLayers(World, v)[j]
            => IdOf(GetLayers(World, v)[i]) # IdOf(GetLayers(World, v)[j])

\* C4: after removeLayer(id) succeeds, getLayers() contains neither the
\* removed Layer nor any Layer that was attached under it.
C4_RemovedWithSubtree ==
    RemoveLayerReturned =>
        \A a \in {out.l} \cup Range(layer[out.l].attachedLayers) : a \notin LayersIn(out.v)

\* C5: when removeLayer removes a Layer, its Source is told through
\* onLayerRemoved that the crs of the Layer is unused if and only if, after
\* the removal, no Layer of any active View has the same source uid and the
\* same crs.
UsedInActiveView(s, c) ==
    \E v \in Range(viewers) : \E o \in LayersIn(v) : SourceOf(o) = s /\ layer[o].crs = c

C5_SharedCache ==
    (RemoveLayerReturned /\ layer[out.l].crs # 0) =>
        /\ Len(out.notified) = 1
        /\ out.notified[1][1] = SourceOf(out.l)
        /\ out.notified[1][2] \in {0, layer[out.l].crs}
        /\ out.notified[1][2] = layer[out.l].crs
             <=> ~UsedInActiveView(SourceOf(out.l), layer[out.l].crs)

\* the Layer was removed from one View while another active View still
\* has a Layer over the same Source and crs
C5_Witness ==
    /\ RemoveLayerReturned /\ layer[out.l].crs # 0
    /\ out.notified[1][2] = 0
    /\ \E v \in Range(viewers) \ {out.v} : \E o \in LayersIn(v) :
          SourceOf(o) = SourceOf(out.l) /\ layer[o].crs = layer[out.l].crs

(***************************************************************************)
(* Properties of the frame-requester registry (LoopSpec)                   *)
(***************************************************************************)
InvokeStep(o, v) == o.op = "invoke" /\ o.v = v

\* C6 as stated: a frame requester that calls removeFrameRequester on
\* itself during its own invocation causes no exception, is not invoked
\* again in the same MainLoop cycle, and is absent from the list of its
\* attach point from the next cycle on (until it is registered there again).
C6_AsStated ==
    [][ \A v \in Views :
          /\ InvokeStep(out', v) =>
               /\ SelfRemoval(out', v) => out'.ret # "threw"
               /\ InvokedBy(out') \notin {q[2] : q \in hist[v].srAny \ hist[v].srNext}
          /\ \A q \in hist'[v].srNext : ~Includes(view'[v].fr[q[1]], q[2]) ]_vars

\* C6, amended: a frame requester that is registered exactly once in the
\* View and calls removeFrameRequester on itself during its own invocation
\* causes no exception, is not invoked again, and is absent from every
\* attach-point list from the next cycle on, as long as it is not
\* registered again.
C6_SelfRemovalOnce ==
    [][ \A v \in Views :
          /\ InvokeStep(out', v) =>
               /\ SelfRemoval(out', v) => out'.ret # "threw"
               /\ InvokedBy(out') \notin {q[2] : q \in hist[v].sr}
          /\ \A q \in hist'[v].sr \cap hist'[v].srNext :
               RegistrationCount(view'[v], q[2]) = 0 ]_vars

\* a requester of the application removed itself and the next cycle runs
C6_Witness ==
    /\ view[1].pc = "exec"
    /\ \E q \in hist[1].sr \cap hist[1].srNext : q[2] \in UserRequesters
    /\ view[1].delayed = <<>>

ListShortened(v) == \E k \in Points : Len(view'[v].fr[k]) < Len(view[v].fr[k])

\* C7 as stated: a requester whose removal is requested during a cycle
\* stays linked for the rest of that cycle and is unlinked only at the start
\* of the next cycle: once a cycle has started, no step of it (other than a
\* requester calling removeAllFrameRequesters) shortens a list.
C7_AsStated ==
    [][ \A v \in Views :
          (view[v].pc # "idle" /\ out'.beh # "removeAll") => ~ListShortened(v) ]_vars

\* C7, amended: removeFrameRequester only queues the removal and the
\* requester stays linked until the queue is executed, which happens at the
\* start of the next execFrameRequesters call on an attach point that has a
\* list (possibly later in the same cycle), in removeAllFrameRequesters, and
\* at the latest at the start of the next cycle; a list is shortened while
\* an execFrameRequesters iteration is in progress only by a requester
\* calling removeAllFrameRequesters.
C7_DeferredRemoval ==
    [][ \A v \in Views :
          /\ ListShortened(v) =>
               \/ out'.op \in {"step", "execEnd", "updateLayers", "removeAllFrameRequesters", "dispose"}
               \/ InvokeStep(out', v) /\ out'.beh = "removeAll"
          /\ (out'.op = "removeFrameRequester" /\ out'.v = v) => view'[v].fr = view[v].fr
          /\ (InvokeStep(out', v) /\ out'.beh = "removeSelf") => view'[v].fr = view[v].fr
          /\ (out'.op = "step" /\ out'.v = v) => view'[v].delayed = <<>> ]_vars

\* a requester that removed itself in this cycle was unlinked by the
\* execFrameRequesters call of a later attach point of the same cycle
C7_Witness ==
    /\ out.op = "updateLayers" /\ view[1].pc = "exec" /\ view[1].point = UPDATE_END
    /\ \E q \in hist[1].srAny \ hist[1].srNext :
          q[1] = BEFORE_LAYER_UPDATE /\ ~Includes(view[1].fr[q[1]], q[2])

(***************************************************************************)
(* Properties of the readiness events (ReadySpec)                          *)
(***************************************************************************)
AllReadyIn(v) == \A o \in LayersIn(v) : layer[o].ready

AtRest(v) ==
    /\ view[v].pc = "idle" /\ ~view[v].rafPending
    /\ view[v].renderingState = RENDERING_PAUSED
    /\ view[v].cmds = 0
    /\ AllReadyIn(v)

\* C8: layers-initialized fires again for every new round of Layers: when
\* a Layer added after a layers-initialized event has become ready and the
\* View has come to rest with all Layers ready, no waiting command and
\* rendering paused, layers-initialized has been dispatched again (nothing
\* dispatches it in a View at rest).
C8_FiresAgain ==
    \A v \in Views : AtRest(v) => ~hist[v].roundPending

\* C9: layers-initialized is dispatched only in a state where every Layer
\* returned by getLayers() is ready, the Scheduler has no waiting command
\* and the rendering state is RENDERING_PAUSED.
C9_OnlyWhenReady ==
    \A v \in Views :
        Dispatched(out, v, "layers-initialized") =>
            /\ AllReadyIn(v)
            /\ view[v].cmds = 0
            /\ view[v].renderingState = RENDERING_PAUSED

C9_Witness ==
    /\ Dispatched(out, 1, "layers-initialized")
    /\ LayersIn(1) = {P, X}

\* C10: the initialized event is dispatched with the first
\* layers-initialized event of a View, once, and with no later one.
C10_InitializedOnce ==
    [][ \A v \in Views :
          /\ Dispatched(out', v, "initialized")
               <=> (Dispatched(out', v, "layers-initialized") /\ ~hist[v].firedLI)
          /\ Cardinality({i \in 1..Len(out'.events) : out'.events[i] = <<v, "initialized", 0>>}) <= 1 ]_vars

\* a second layers-initialized event, without initialized
C10_Witness ==
    /\ hist[1].firedLI
    /\ Dispatched(out, 1, "layers-initialized")
    /\ ~Dispatched(out, 1, "initialized")
    /\ out.events[1] = <<1, "layers-initialized", 0>>

(***************************************************************************)
(* Properties of notifyChange (NotifySpec)                                 *)
(***************************************************************************)
NotifyStep(o, v) == o.op = "notifyChange" /\ o.v = v
\* the needsRedraw argument of the call, the default being true
NeedsRedrawArg(o) == o.beh # "false"
Recorded(c) == IF c # 0 THEN {c} ELSE {}

\* C17 as stated: notifyChange(source, needsRedraw) adds a defined source to
\* the pending change set (an undefined one adds nothing), marks the
\* full-frame depth cache stale exactly when the source is a camera or a
\* tile mesh, and always asks the MainLoop to schedule an update of this
\* View with needsRedraw passed through unchanged (true by default).
C17_AsStated ==
    [][ \A v \in Views : NotifyStep(out', v) =>
          /\ view'[v].changeSources = view[v].changeSources \cup Recorded(out'.p)
          /\ view'[v].depthStale = (view[v].depthStale \/ IsCamera(out'.p) \/ IsTileMesh(out'.p))
          /\ out'.scheduled = << <<v, NeedsRedrawArg(out')>> >>
          /\ view'[v].needsRedraw = (view[v].needsRedraw \/ NeedsRedrawArg(out')) ]_vars

\* C17, amended: notifyChange(source, needsRedraw) adds a defined source to
\* the pending change set (an undefined one adds nothing), marks the
\* full-frame depth cache stale exactly when the source is a camera or a
\* tile mesh and no XR session is presenting, and always asks the MainLoop
\* to schedule an update of this View with needsRedraw passed through
\* unchanged (true by default).
C17_NotifyChange ==
    [][ \A v \in Views : NotifyStep(out', v) =>
          /\ view'[v].changeSources = view[v].changeSources \cup Recorded(out'.p)
          /\ view'[v].depthStale =
                (view[v].depthStale
                   \/ (~view[v].xrPresenting /\ (IsCamera(out'.p) \/ IsTileMesh(out'.p))))
          /\ out'.scheduled = << <<v, NeedsRedrawArg(out')>> >>
          /\ view'[v].needsRedraw = (view[v].needsRedraw \/ NeedsRedrawArg(out')) ]_vars

\* a camera change was notified during an XR session and the depth cache
\* was left as it was
C17_Witness ==
    /\ NotifyStep(out, 1) /\ IsCamera(out.p) /\ out.beh = "default"
    /\ view[1].xrPresenting /\ ~view[1].depthStale
    /\ Camera \in view[1].changeSources

(***************************************************************************)
(* Properties of resize (ResizeSpec)                                       *)
(***************************************************************************)
ResizeStep(o, v) == o.op = "resize" /\ o.v = v
\* the size a resize call asks for
AskedSize(o) == <<ResizeWidth(o.l), ResizeHeight(o.p)>>
NegativeArgs(o) == (o.l # NoArg /\ o.l < 0) \/ (o.p # NoArg /\ o.p < 0)
\* the call repeats the dimensions of the last resize that was carried out
SameAsLastResize(o, v) == ResizeStep(o, v) /\ ~NegativeArgs(o) /\ hist[v].resized = AskedSize(o)

\* C13 as stated: resize is idempotent with respect to change
\* notification: a resize call with the dimensions of the previous resize
\* issues no notifyChange and requests no redraw.
C13_AsStated ==
    [][ \A v \in Views : SameAsLastResize(out', v) =>
          /\ out'.changes = <<>>
          /\ out'.scheduled = <<>>
          /\ view'[v].needsRedraw = view[v].needsRedraw ]_vars

\* C13, amended: resize is idempotent with respect to the sizes only: a
\* resize call with the dimensions of the previous resize leaves the
\* renderer size, the camera size and the size of the full-size depth
\* buffer as they are, but like every resize with non-zero dimensions it
\* replaces the depth buffer and issues one notifyChange(camera3D) that
\* requests a redraw; with a zero dimension it issues none.
C13_ResizeNotifies ==
    [][ \A v \in Views :
          /\ SameAsLastResize(out', v) =>
                /\ view'[v].rendererSize = view[v].rendererSize
                /\ view'[v].cameraSize = view[v].cameraSize
                /\ view'[v].bufferSize = view[v].bufferSize
          /\ (ResizeStep(out', v) /\ ~NegativeArgs(out')) =>
                LET width == AskedSize(out')[1]
                    height == AskedSize(out')[2] IN
                /\ Len(out'.calls) > 0
                /\ out'.calls[1] = <<"newBuffer", width, height>>
                /\ view'[v].rendererSize = AskedSize(out')
                /\ IF width # 0 /\ height # 0
                   THEN /\ out'.changes = << <<v, Camera3D, TRUE>> >>
                        /\ view'[v].needsRedraw
                        /\ view'[v].cameraSize = AskedSize(out')
                   ELSE /\ out'.changes = <<>>
                        /\ view'[v].needsRedraw = view[v].needsRedraw
                        /\ view'[v].cameraSize = view[v].cameraSize ]_vars

\* the View was at rest after a resize and the same resize was called again
C13_Witness ==
    /\ ResizeStep(out, 1) /\ out.l = 1 /\ out.p = 2
    /\ hist[1].resized = <<1, 2>> /\ view[1].rendererSize = <<1, 2>>
    /\ out.changes = << <<1, Camera3D, TRUE>> >>
    /\ view[1].changeSources = {Camera3D}

\* C14: resize with a negative width or a negative height is a no-op: the
\* full-size depth buffer, the renderer size and the camera size are
\* unchanged and no notifyChange is issued.
C14_NegativeResize ==
    [][ \A v \in Views : (ResizeStep(out', v) /\ NegativeArgs(out')) =>
          /\ out'.ret = "skipped"
          /\ view'[v] = view[v]
          /\ out'.calls = <<>>
          /\ out'.changes = <<>>
          /\ out'.scheduled = <<>> ]_vars

\* resize(2, -1) was skipped on a View whose depth cache is stale
C14_Witness ==
    /\ ResizeStep(out, 1) /\ out.l = 2 /\ out.p = 0 - 1 /\ out.ret = "skipped"
    /\ view[1].depthStale /\ view[1].rendererSize = <<1, 1>>

(***************************************************************************)
(* Properties of addLayer with a faulty argument (ConfigSpec)              *)
(***************************************************************************)
AddLayerStep(o, v, l) == o.op = "addLayer" /\ o.v = v /\ o.l = l
\* the three configuration errors, in the state before the call
ConfigError(v, l, p) ==
    \/ ~IsLayer(l)
    \/ GetLayerById(World, v, IdOf(l)) # 0
    \/ p = 0 /\ (~HasUpdate(l) \/ ~HasPreUpdate(l))

SceneAdds(o) == {i \in 1..Len(o.calls) : o.calls[i][1] = "scene.add"}

\* C11: addLayer never throws for a configuration error: a non-Layer
\* argument, an already-used id, and a root Layer without an update or
\* preUpdate function each give a rejected readiness promise (that of the
\* Layer, when it is still pending), and the rejected Layer is added
\* neither to the layer set of the View nor to the scene graph.
C11_ConfigErrorRejects ==
    [][ \A v \in Views : \A l \in Objs :
          (AddLayerStep(out', v, l) /\ ConfigError(v, l, out'.p)) =>
             /\ out'.ret = "rejected"
             /\ (IsLayer(l) /\ layer[l].whenReady = "pending") => layer'[l].whenReady = "rejected"
             /\ view'[v].layers = view[v].layers
             /\ GetLayers(World', v) = GetLayers(World, v)
             /\ \A o \in Objs : /\ layer'[o].attachedLayers = layer[o].attachedLayers
                                 /\ layer'[o].inScene = layer[o].inScene
             /\ SceneAdds(out') = {}
             /\ reactions' = reactions ]_vars

\* a root Layer without update function was rejected by a View that has
\* the Layer P, and a non-Layer argument was rejected
C11_Witness ==
    /\ AddLayerStep(out, 1, Z) /\ out.p = 0 /\ out.ret = "rejected"
    /\ layer[Z].whenReady = "rejected" /\ layer[W].whenReady = "rejected"
    /\ GetLayers(World, 1) = <<P>> /\ layer[P].inScene

(***************************************************************************)
(* Properties of the readiness promise (PromiseSpec)                       *)
(***************************************************************************)
AllResolved(lr) == \A i \in DOMAIN lr.promises : lr.promises[i] = "resolved"
AnyRejected(lr) == \E i \in DOMAIN lr.promises : lr.promises[i] = "rejected"
\* the reactions that addLayer(l) calls on View v have registered
ReactionCount(rs, v, l) == Len(SelectSeq(rs, LAMBDA r : r[1] = v /\ r[2] = l))
LayerAddedCount(o, v, layerId) ==
    Cardinality({i \in 1..Len(o.events) : o.events[i] = <<v, "layer-added", layerId>>})

\* the reactions of View v, for the Layers of S, that a step has run with
\* all the startup promises resolved
RECURSIVE RanResolved(_, _, _, _, _)
RanResolved(S, before, after, layers, v) ==
    IF S = {} THEN 0
    ELSE LET o == CHOOSE x \in S : TRUE IN
         (IF AllResolved(layers[o])
          THEN ReactionCount(before, v, o) - ReactionCount(after, v, o) ELSE 0)
         + RanResolved(S \ {o}, before, after, layers, v)

\* C12: the promise returned by addLayer resolves only after every startup
\* promise of the Layer has resolved; layer-added is dispatched exactly once
\* per successful addLayer and only after that point; if a startup promise
\* rejects, the returned promise rejects and layer-added is not dispatched
\* for that addLayer.
C12_ReadinessPromise ==
    [][ \A v \in Views : \A l \in LayerObjs :
          LET ran == ReactionCount(reactions, v, l) - ReactionCount(reactions', v, l) IN
          /\ layer'[l].whenReady = "resolved" => AllResolved(layer'[l])
          /\ AddLayerStep(out', v, l) =>
                /\ out'.events = <<>>
                /\ ran = IF out'.ret = "whenReady" THEN 0 - 1 ELSE 0
          /\ out'.op # "addLayer" =>
                /\ ran >= 0
                /\ ran > 0 => PromiseAll(layer'[l].promises) # "pending"
                /\ LayerAddedCount(out', v, IdOf(l))
                     = RanResolved({o \in LayerObjs : IdOf(o) = IdOf(l)},
                                   reactions, reactions', layer', v)
                /\ (ran > 0 /\ AllResolved(layer'[l]) /\ layer[l].whenReady = "pending")
                     => layer'[l].whenReady = "resolved"
                /\ (ran > 0 /\ AnyRejected(layer'[l])) => layer'[l].whenReady = "rejected" ]_vars

\* the last startup promise of X resolved and layer-added was dispatched,
\* after a startup promise of P had rejected
C12_Witness ==
    /\ out.op = "settlePromise" /\ out.l = X
    /\ out.events = << <<1, "layer-added", IdOf(X)>> >>
    /\ layer[X].whenReady = "resolved"
    /\ AnyRejected(layer[P]) /\ layer[P].whenReady = "rejected"

(***************************************************************************)
(* Properties of dispose (DisposeSpec)                                     *)
(***************************************************************************)
DisposeStep(o, v) == o.op = "dispose" /\ o.v = v
Active(v) == v \in Range(viewers)
DisposedCount(o, v) ==
    Cardinality({i \in 1..Len(o.events) : o.events[i] = <<v, "disposed", 0>>})

\* C15: a dispose() call on a View that is no longer in the active-view
\* registry returns without throwing and changes nothing: no Layer is
\* removed, no event is dispatched, and the registry and the Views in it
\* are unchanged.
C15_DisposeTwice ==
    [][ \A v \in Views : (DisposeStep(out', v) /\ ~Active(v)) =>
          /\ out'.ret # "threw"
          /\ out'.errors = 1
          /\ out'.events = <<>> /\ out'.deleted = <<>> /\ out'.notified = <<>>
          /\ viewers' = viewers
          /\ view' = view
          /\ layer' = layer
          /\ reactions' = reactions ]_vars

\* View 1 was disposed of with its Layers, and dispose was called again
C15_Witness ==
    /\ DisposeStep(out, 1) /\ out.errors = 1 /\ out.events = <<>>
    /\ viewers = <<2>>
    /\ layer[P].crs # 0 /\ layer[X].crs # 0

\* C16: dispose() on an active View, in any reachable state, completes
\* without throwing, and afterwards getLayers() is empty, no frame
\* requester is registered at any attach point, the View is no longer in
\* the active-view registry, the disposed event has been dispatched exactly
\* once, and the View has no event listener left.
C16_DisposeCleans ==
    [][ \A v \in Views : (DisposeStep(out', v) /\ Active(v)) =>
          /\ out'.ret # "threw"
          /\ GetLayers(World', v) = <<>>
          /\ \A k \in Points : view'[v].fr[k] = <<>>
          /\ view'[v].delayed = <<>>
          /\ v \notin Range(viewers')
          /\ DisposedCount(out', v) = 1
          /\ ~view'[v].fnRegistered ]_vars

(***************************************************************************)
(* Properties of the sequence of the color Layers (SequenceSpec)           *)
(***************************************************************************)
SequencesOf(v) ==
    {layer[ColorLayers(World, v)[i]].sequence : i \in 1..Len(ColorLayers(World, v))}

\* C18: after any sequence of addLayer and removeLayer calls, the sequence
\* values of the color Layers of the View are contiguous: with n color
\* Layers returned by getLayers(), their sequence values are exactly
\* 0..n-1, each used once.
C18_ContiguousSequences ==
    \A v \in Views : SequencesOf(v) = 0..(Len(ColorLayers(World, v)) - 1)

(***************************************************************************)
(* Properties of picking (PickSpec)                                        *)
(***************************************************************************)
Picked == out.op = "pick"
PickedWithSurface ==
    /\ Picked
    /\ view[out.v].tileLayer # 0
    /\ ~NoLevel0Node(World, view[out.v].tileLayer)

\* C19 as stated: the bound is on the picked depth, so that a pick whose
\* depth exceeds the bound returns undefined.
C19_AsStated ==
    PickedWithSurface /\ out.l > SanityBound => out.ret = "undefined"

\* C19: getPickingPositionFromDepth never throws; it returns undefined when
\* the View has no tile layer or the tile layer has no level-0 node, and
\* when the unprojected position (camera position + direction * picked
\* depth) is farther than 10000000 from the origin; otherwise it returns the
\* position, whatever the picked depth.
C19_Picking ==
    Picked =>
        /\ out.ret \in {"undefined", "position"}
        /\ ~PickedWithSurface => out.ret = "undefined"
        /\ PickedWithSurface =>
              /\ out.id = view[out.v].cameraPosition + view[out.v].cameraDirection * out.l
              /\ out.ret = "undefined" <=> Abs(out.id) > SanityBound

C19_Witness ==
    /\ PickedWithSurface
    /\ out.l > SanityBound
    /\ out.ret = "position"

(***************************************************************************)
(* Properties of the ids of the Views (IdSpec)                             *)
(***************************************************************************)
Constructed == out.op = "construct" /\ out.ret = "constructed"

\* the ids of all the Views constructed so far, disposed or not
RECURSIVE IdsGiven(_)
IdsGiven(vs) ==
    IF vs = {} THEN <<>>
    ELSE LET v == CHOOSE x \in vs : TRUE IN hist[v].ids \o IdsGiven(vs \ {v})

\* C20 as stated: the id of a View is the number of Views successfully
\* constructed before it.
C20_AsStated ==
    Constructed => view[out.v].id = Len(IdsGiven(Views)) - 1

\* C20: the id of a View is the number of constructor calls that passed the
\* check of viewerDiv before it, failed ones included: it is at least the
\* number of Views successfully constructed before it; a call that throws
\* for a missing viewerDiv takes no id, a call that throws later has taken
\* one; two Views never share an id and an id is not reused after dispose.
C20_ViewIds ==
    /\ Constructed =>
          /\ view[out.v].id = id - 1
          /\ view[out.v].id >= Len(IdsGiven(Views)) - 1
    /\ (out.op = "construct" /\ out.ret = "threw") =>
          IF out.p = NoDiv THEN out.id = NoId ELSE out.id = id - 1
    /\ \A i, j \in 1..Len(IdsGiven(Views)) : i # j => IdsGiven(Views)[i] # IdsGiven(Views)[j]
    /\ \A i \in 1..Len(IdsGiven(Views)) : IdsGiven(Views)[i] \in 0..(id - 1)

C20_Witness ==
    /\ Constructed
    /\ view[out.v].id > Len(IdsGiven(Views)) - 1
    /\ \E v \in Views : Len(hist[v].ids) > 1

(***************************************************************************)
(* Properties of the first-update flag (LoopSpec)                          *)
(***************************************************************************)
\* C21: the flag given to every frame requester invoked in a cycle is true
\* exactly when notifyChange was not called during the execution of the
\* previous cycle (true in the first cycle), false when it was.
C21_FirstUpdateFlag ==
    \A v \in Views : (out.op = "invoke" /\ out.v = v) =>
        /\ Len(out.flags) = Len(out.invoked)
        /\ \A i \in 1..Len(out.flags) : out.flags[i] = ~hist[v].notifiedPrev

\* a requester is told that the update continues the previous cycle
C21_Witness ==
    /\ out.op = "invoke" /\ out.v = 1
    /\ out.flags = <<FALSE>>
    /\ hist[1].notifiedPrev
    /\ view[1].point = UPDATE_END

(***************************************************************************)
(* Properties of the inheritance of extent and crs (InheritSpec)           *)
(***************************************************************************)
\* addLayer(l, p) returned the readiness promise of l
AddedUnder(o, l, p) == o.op = "addLayer" /\ o.l = l /\ o.p = p /\ p # 0 /\ o.ret = "whenReady"

\* the crs a Layer without crs inherits from its parent
InheritedCrs(l, p) ==
    IF SourceCrs(SourceOf(l)) \in TileMatrixSets(p) THEN SourceCrs(SourceOf(l))
    ELSE layer[p].extent

\* C22 as stated: every Layer added under a parent inherits an unset extent
\* and an unset crs and keeps the extent and the crs it has.
C22_AsStated ==
    [][ \A l \in {P, X} : \A p \in {P, K} : AddedUnder(out', l, p) =>
          /\ layer'[l].extent = IF layer[l].extent = 0 THEN layer[p].extent ELSE layer[l].extent
          /\ layer'[l].crs = IF layer[l].crs = 0 THEN InheritedCrs(l, p) ELSE layer[l].crs ]_vars

\* C22, amended: when addLayer accepts a Layer under a parent, an unset
\* extent becomes the parent's extent, and in that case only an unset source
\* extent too; a set extent is kept.  A geometry Layer that is not a label
\* Layer always gets the reference crs of the View, whatever crs it had;
\* another Layer keeps a set crs and inherits an unset one (the source crs
\* when the parent's tile matrix sets include it, otherwise the crs of the
\* parent's extent).  A rejected call changes neither.
C22_Inherits ==
    [][ \A l \in {P, X} : \A p \in {P, K} :
          /\ AddedUnder(out', l, p) =>
                /\ layer'[l].extent = IF layer[l].extent = 0 THEN layer[p].extent ELSE layer[l].extent
                /\ source'[SourceOf(l)].extent =
                      IF layer[l].extent = 0 /\ source[SourceOf(l)].extent = 0
                      THEN layer[p].extent ELSE source[SourceOf(l)].extent
                /\ layer'[l].crs =
                      IF IsGeometryLayer(l) /\ ~IsLabelLayer(l) THEN RefCrs(1)
                      ELSE IF layer[l].crs = 0 THEN InheritedCrs(l, p) ELSE layer[l].crs
          /\ (out'.op = "addLayer" /\ out'.l = l /\ out'.ret = "rejected") =>
                /\ layer'[l].extent = layer[l].extent
                /\ layer'[l].crs = layer[l].crs
                /\ source' = source ]_vars

\* X, built with an extent and without crs, was added under K, whose tile
\* matrix sets lack the source crs: X has the crs of the extent of K
C22_Witness ==
    /\ AddedUnder(out, X, K)
    /\ layer[X].extent = OwnExtent /\ layer[K].extent = OwnExtent
    /\ layer[X].crs = OwnExtent
    /\ source[SourceOf(X)].extent = 0

(***************************************************************************)
(* Properties of the PlanarView (PlanarSpec)                               *)
(***************************************************************************)
\* the accepted addLayer calls of the step attach their Layer to the tile
\* Layer t
AttachedToTileLayer(o, t, ls) ==
    \A l \in {P, X, K} : (o.op = "addLayer" /\ o.l = l /\ o.ret = "whenReady") =>
        /\ ls[l].parent = t
        /\ Includes(ls[t].attachedLayers, l)

\* C23 as stated: once the PlanarView is constructed, its tile Layer is its
\* only root, and every Layer accepted by addLayer is attached to the tile
\* Layer whatever parent the caller passes.
C23_AsStated ==
    [][ view'[1].tileLayer # 0 =>
          /\ view'[1].layers = <<view'[1].tileLayer>>
          /\ AttachedToTileLayer(out', view'[1].tileLayer, layer') ]_vars

\* C23, amended: no Layer other than the tile Layer is ever a root of the
\* PlanarView: the tile Layer is its only root until removeLayer removes it,
\* and from then on the View has no root at all; every Layer accepted by
\* addLayer after construction, the removed tile Layer included, is attached
\* to the tile Layer whatever parent the caller passes.
C23_PlanarRoots ==
    [][ view'[1].tileLayer # 0 =>
          /\ view'[1].layers \in {<<view'[1].tileLayer>>, <<>>}
          /\ (view[1].tileLayer # 0 /\ view[1].layers = <<>>) => view'[1].layers = <<>>
          /\ view'[1].layers = <<>> =>
                (view[1].layers = <<>> \/ (out'.op = "removeLayer" /\ out'.l = view[1].tileLayer))
          /\ AttachedToTileLayer(out', view'[1].tileLayer, layer') ]_vars

\* X was added with the parent argument K and is attached to the tile Layer
C23_Witness ==
    /\ out.op = "addLayer" /\ out.l = X /\ out.p = K /\ out.ret = "whenReady"
    /\ view[1].layers = <<P>>
    /\ layer[X].parent = P /\ layer[K].attachedLayers = <<>>

(***************************************************************************)
(* Properties of the depth cache of picking (CacheSpec)                    *)
(***************************************************************************)
CallsOf(o, name, area) ==
    Len(SelectSeq(o.calls, LAMBDA c : c[1] = name /\ c[4] = area))

\* C27: a pick that reaches the depth buffers reads the full-size buffer
\* exactly when the Scheduler has no command waiting and the rendering is
\* paused, and otherwise renders and reads one pixel, leaving the cache as
\* it is; a paused pick renders the full frame exactly when the cache is
\* marked as needing an update, and leaves it unmarked, so that the full
\* frame is never rendered again while it is fresh.
C27_DepthCache ==
    [][ \A v \in Views :
          ( /\ out'.op = "pick" /\ out'.v = v
            /\ view[v].tileLayer # 0
            /\ ~NoLevel0Node(World, view[v].tileLayer) )
          => IF view[v].cmds = 0 /\ view[v].renderingState = RENDERING_PAUSED
             THEN /\ CallsOf(out', "slice", "full") = 1
                  /\ CallsOf(out', "renderViewToBuffer", "pixel") = 0
                  /\ CallsOf(out', "renderViewToBuffer", "full")
                        = IF view[v].depthStale THEN 1 ELSE 0
                  /\ ~view'[v].depthStale
                  /\ hist[v].fullFrameFresh => CallsOf(out', "renderViewToBuffer", "full") = 0
                  /\ out'.l = view'[v].fullSizeDepth
             ELSE /\ CallsOf(out', "slice", "full") = 0
                  /\ CallsOf(out', "renderViewToBuffer", "pixel") = 1
                  /\ CallsOf(out', "renderViewToBuffer", "full") = 0
                  /\ view'[v].depthStale = view[v].depthStale
                  /\ view'[v].fullSizeDepth = view[v].fullSizeDepth
                  /\ out'.l = out'.p ]_vars

\* a paused pick read the depth of an earlier render from the cache, and
\* rendered nothing
C27_Witness ==
    /\ out.op = "pick" /\ out.ret = "position"
    /\ Len(out.calls) = 1 /\ out.calls[1][1] = "slice"
    /\ out.l \in Depths /\ out.l # out.p
    /\ hist[out.v].fullFrameFresh

Leaving(l) == {l} \cup Range(layer[l].attachedLayers)

\* C29: when removeLayer succeeds, the named Layer and every Layer attached
\* under it has delete called on it once, and its Source is notified through
\* onLayerRemoved once for each of them.
C29_AllReleased ==
    RemoveLayerReturned =>
        \A a \in Leaving(out.l) :
            /\ Len(SelectSeq(out.deleted, LAMBDA d : d = a)) = 1
            /\ Len(SelectSeq(out.notified, LAMBDA n : n[1] = SourceOf(a)))
                  = Cardinality({b \in Leaving(out.l) : SourceOf(b) = SourceOf(a)})

\* C30: removeLayer with an id that no Layer returned by getLayers() has
\* throws and changes nothing: the Layers, their sequences, the roots, the
\* pending change sources and the scheduled update of the View are as
\* before, no Layer is deleted, no Source is notified, no event is
\* dispatched.
C30_RemoveUnknown ==
    [][ \A v \in Views :
          ( /\ out'.op = "removeLayer" /\ out'.v = v
            /\ \A a \in LayersIn(v) : IdOf(a) # out'.id )
          => /\ out'.ret = "threw"
             /\ view' = view /\ layer' = layer /\ source' = source
             /\ viewers' = viewers /\ reactions' = reactions
             /\ out'.deleted = <<>> /\ out'.notified = <<>>
             /\ out'.events = <<>> /\ out'.changes = <<>> ]_vars

\* the id of a Layer that is not in the View was given while the View has
\* a tiled Layer and a color Layer with a sequence
C30_Witness ==
    /\ out.op = "removeLayer" /\ out.ret = "threw" /\ out.l = 0
    /\ out.id = IdOf(K)
    /\ LayersIn(1) = {P, X}

\* C31: when removeLayer(id) returns true, layer-removed with that id was
\* dispatched once, and when it was dispatched the Layer was no longer in
\* getLayers(), its Source had been notified and a change had been notified.
C31_RemovedThenEvent ==
    RemoveLayerReturned =>
        /\ out.events = << <<out.v, "layer-removed", out.id>> >>
        /\ Len(out.seen) = 1
        /\ out.l \notin out.seen[1].layers
        /\ out.seen[1].notified = 1
        /\ out.seen[1].changes = 1

\* getLayers() of View v before and after the step, without the Layers of gone
KeptBefore(v, gone) == SelectSeq(GetLayers(World, v), LAMBDA x : x \notin gone)
KeptAfter(v, gone) ==
    SelectSeq(GetLayers([view |-> view', layer |-> layer'], v), LAMBDA x : x \notin gone)

C33_FailedDetach ==
    [][ \A v \in Views :
          (out'.op = "removeLayer" /\ out'.v = v /\ out'.l # 0 /\ out'.ret = "threw")
          => /\ out'.deleted = <<>>
             /\ GetLayers([view |-> view', layer |-> layer'], v) = GetLayers(World, v)
             /\ layer'[out'.l].parent = layer[out'.l].parent
             /\ out'.notified = <<>>
             /\ out'.events = <<>> ]_vars

\* C34: when the Layer L, added with label support, is removed from a View
\* that has its LabelLayer, the LabelLayer is no longer in the View after
\* the call.
C34_LabelRemoved ==
    [][ ( /\ out'.op = "removeLayer" /\ out'.v = 1 /\ out'.l = L
          /\ LL \in LayersIn(1) )
        => \A i \in 1..Len(GetLayers([view |-> view', layer |-> layer'], 1)) :
              GetLayers([view |-> view', layer |-> layer'], 1)[i] # LL ]_vars

ReactionStep(o) == o.op \in {"settle", "settlePromise", "reactions"}

\* C35: when startup promises resolve, layer-added is dispatched only for a
\* Layer that getLayers() returns at that time, and on a View that was
\* disposed of no frame requester is registered and no update is scheduled.
C35_LateStartup ==
    [][ ReactionStep(out') =>
          /\ \A i \in 1..Len(out'.events) :
                out'.events[i][2] = "layer-added"
                => \E a \in out'.seen[i].layers : IdOf(a) = out'.events[i][3]
          /\ \A v \in Views \ Range(viewers) :
                /\ view'[v].fr = view[v].fr
                /\ view'[v].frHas = view[v].frHas
                /\ \A i \in 1..Len(out'.scheduled) : out'.scheduled[i][1] # v ]_vars

\* C36: removeFrameRequester(when, f) with f not in the list of `when`,
\* or with no list at `when`, does not throw, reports one error and leaves
\* the lists and the queue of removals as they are.
C36_RemoveUnregistered ==
    [][ \A v \in Views :
          ( /\ out'.op = "removeFrameRequester" /\ out'.v = v
            /\ ~Includes(view[v].fr[out'.p], out'.id) )
          => /\ out'.ret # "threw"
             /\ out'.errors = 1
             /\ view'[v].fr = view[v].fr
             /\ view'[v].delayed = view[v].delayed ]_vars

(***************************************************************************)
(* Properties of execFrameRequesters called by the application (ExecSpec)  *)
(***************************************************************************)
\* the step starts the execFrameRequesters call of View v for `when`
ExecStarts(v, when) ==
    /\ out'.v = v /\ out'.op \in {"execFrameRequesters", "step", "execEnd", "updateLayers"}
    /\ view'[v].pc = "exec" /\ view'[v].point = when /\ view'[v].idx = 1

\* C37: a requester that is once in the list of an attach point and whose
\* removal from it is queued when an execFrameRequesters call for that
\* attach point starts is out of the list before the loop of the call; and
\* a requester is only ever invoked from the list of the attach point, so
\* that it is not invoked by that call nor later, unless it is registered
\* again.
C37_RemovedNotInvoked ==
    [][ \A v \in Views :
          /\ \A when \in Points : \A f \in UserRequesters \cup {AllLayersAreReadyCallback} :
                ( /\ ExecStarts(v, when)
                  /\ Includes(view[v].delayed, <<when, f>>)
                  /\ Len(SelectSeq(view[v].fr[when], LAMBDA x : x = f)) = 1 )
                => ~Includes(view'[v].fr[when], f)
          /\ (out'.op = "invoke" /\ out'.v = v /\ Len(out'.invoked) > 0)
                => /\ out'.invoked[1][1] = view[v].point
                   /\ Includes(view[v].fr[view[v].point], out'.invoked[1][2]) ]_vars

\* execFrameRequesters(UPDATE_END) started with the only requester of the
\* attach point queued for removal: its loop has nothing to invoke
C37_Witness ==
    /\ out.op = "execFrameRequesters" /\ out.p = UPDATE_END
    /\ view[1].pc = "exec" /\ view[1].idx = 1
    /\ UPDATE_END \in view[1].frHas
    /\ view[1].fr[UPDATE_END] = <<>>
    /\ view[1].delayed = <<>>

(***************************************************************************)
(* Properties of the Scheduler and of the TileNodes (SchedSpec)            *)
(***************************************************************************)
Handles == 1..Len(sched.commands)

\* C24: when two commands with the same source key are outstanding at the
\* same time (both submitted before either completes), they complete in the
\* same step, served by the same fetch and with the same result; at most
\* one fetch per source key is in flight.
C24_SharedFetch ==
    [][ /\ \A key \in Keys : Cardinality(LiveOps(sched', key)) <= 1
        /\ \A i, j \in Handles :
              ( /\ i # j
                /\ sched.commands[i].key = sched.commands[j].key
                /\ Outstanding(sched.commands[i]) /\ Outstanding(sched.commands[j])
                /\ sched'.commands[i].state = "done" )
              => /\ sched'.commands[j].state = "done"
                 /\ sched'.commands[j].result = sched'.commands[i].result
                 /\ sched'.commands[j].fetch = sched'.commands[i].fetch ]_vars

\* two commands of different nodes got the result of the only fetch started
C24_Witness ==
    /\ out.op = "deliver"
    /\ Len(sched.commands) = 2 /\ sched.started = 1
    /\ sched.commands[1].node # sched.commands[2].node
    /\ \A h \in 1..2 : sched.commands[h].state = "done" /\ sched.commands[h].result = "b"
    /\ out.calls = << <<"callback", 1, "b">>, <<"callback", 2, "b">> >>

\* C25: a command cancelled before its completion never gets its result
\* callback invoked, whenever the result of its fetch arrives and is
\* delivered: it stays cancelled, without result.
C25_CancelWins ==
    [][ \A h \in Handles : sched.commands[h].cancelled =>
          /\ sched'.commands[h].state = "cancelled"
          /\ sched'.commands[h].result = "none"
          /\ \A k \in 1..Len(out'.calls) : ~(out'.calls[k][1] = "callback" /\ out'.calls[k][2] = h) ]_vars

\* the result of the fetch of a cancelled command arrived after the
\* cancellation and was handed over: nothing was called
C25_Witness ==
    /\ out.op = "deliver" /\ out.calls = <<>>
    /\ \E h \in Handles : /\ sched.commands[h].cancelled
                           /\ sched.commands[h].fetch = out.p
                           /\ sched.commands[h].result = "none"

OutstandingFor(n) == {h \in Handles : sched.commands[h].node = n /\ Outstanding(sched.commands[h])}

\* C26: in every reachable state a TileNode that is loading has exactly one
\* outstanding command, and a TileNode in another state has none: no second
\* request is issued for a node while one is outstanding.
C26_OneCommandPerNode ==
    \A n \in Nodes :
        Cardinality(OutstandingFor(n)) = IF sched.node[n] = "loading" THEN 1 ELSE 0

\* a node is loading again after a failed fetch was retried
C26_Witness ==
    /\ out.op = "deliver" /\ Len(out.calls) = 1 /\ out.calls[1][3] = "error"
    /\ \E n \in Nodes : sched.node[n] = "loading" /\ OutstandingFor(n) = {2}

====
